---- MODULE Spec2Model ----
(***************************************************************************)
(* Session manager of the DENSO b-CAP MCP server                           *)
(* (src/workgroups_track/cobotta_mcp/mcp_server.py).                       *)
(*                                                                         *)
(* The state is the single ServerState instance.  Every tool call is one   *)
(* atomic step: the handlers contain no await, so the event loop never     *)
(* interleaves two of them (SpecConc runs the coroutines call by call on   *)
(* the event loop to check this).  The protocol client (BCAPClient)        *)
(* is external: each of its calls either returns or raises, chosen by an   *)
(* oracle (the set of failing call positions of the step and the exception *)
(* a failing call raises).                                                 *)
(*                                                                         *)
(* Data representation:                                                    *)
(*   Optional[int] (handles), Optional[BCAPClient]: an integer, None = -1; *)
(*     a client object is identified by the host it was opened to;         *)
(*   dict: a record (function on strings), {} the empty function;          *)
(*   Optional text / Optional dict: a record, None = NoneRec;              *)
(*   str(x): Str(x), a record wrapping x;                                  *)
(*   f-string texts: records of their variable parts;                      *)
(*   timestamps and the constant message/note/warning texts are omitted.   *)
(***************************************************************************)
EXTENDS Integers, Sequences, FiniteSets, TLC

None == -1
NoneRec == [none |-> TRUE]
EmptyDict == [k \in {} |-> None]

\* Bounds of the model.
MaxHandle == 1      \* the protocol client returns handles in 0..MaxHandle
MaxLog == 1         \* a behaviour appends at most MaxLog entries to the log it started with
MaxLogLen == 2      \* SpecLog: the log read has 0..MaxLogLen entries (or DefaultLimit + 1)
MaxLimit == 3       \* SpecLog: the limit asked for is in -MaxLimit..MaxLimit
MaxPoints == 3      \* SpecTraj: a trajectory has 0..MaxPoints points
MaxFaults == 3      \* SpecTraj: at most MaxFaults protocol calls of one trajectory fail
MaxPickFaults == 2  \* SpecPick: at most MaxPickFaults protocol calls of one pick-and-place fail

Handles == 0..MaxHandle
Hosts == {1, 2}

\* args.get defaults of handle_connect
DefaultPort == 5007
DefaultTimeout == 3

VARIABLES
    client,             \* state.client
    controller_handle,  \* state.controller_handle
    robot_handle,       \* state.robot_handle
    connection_info,    \* state.connection_info
    operation_log,      \* state.operation_log
    response,           \* what the last step returned to its caller
    calls,              \* protocol-client calls issued by the last step, in order
    ctrl_in_session,    \* history: a controller-connect succeeded since client was last set or cleared
    after_reset,        \* history: the previous operation was a call of ServerState.reset
    log_start,          \* length of the log the behaviour started with
    tasks,              \* the call_tool coroutines on the event loop, by task number
    running,            \* the coroutine the event loop is executing, None when it is idle
    events              \* history: the protocol calls and returns of the coroutines, in order

vars == << client, controller_handle, robot_handle, connection_info,
           operation_log, response, calls, ctrl_in_session, after_reset, log_start,
           tasks, running, events >>

\* The ServerState instance as one value.
state == [ client |-> client,
           controller_handle |-> controller_handle,
           robot_handle |-> robot_handle,
           connection_info |-> connection_info,
           operation_log |-> operation_log ]

\* ServerState.__init__
ServerState == [ client |-> None,
                 controller_handle |-> None,
                 robot_handle |-> None,
                 connection_info |-> EmptyDict,
                 operation_log |-> << >> ]

-----------------------------------------------------------------------------
\* Python helpers

\* truth value of an Optional[int] / Optional[object]: None and 0 are falsy
Truthy(v) == v # None /\ v # 0

\* dict.get(key, default)
Get(d, key, default) == IF key \in DOMAIN d THEN d[key] ELSE default

\* str(x)
Str(x) == [str |-> x]

-----------------------------------------------------------------------------
\* Exceptions.  hresult is the name of the HResult member an ORiNException carries.

NoExc == [type |-> "None", msg |-> "", hresult |-> ""]
Exc(msg) == [type |-> "Exception", msg |-> msg, hresult |-> ""]
ValueError(msg) == [type |-> "ValueError", msg |-> msg, hresult |-> ""]
ORiNException(h) == [type |-> "ORiNException", msg |-> "", hresult |-> h]

\* what a failing protocol-client call may raise
ProtoExcs == { ORiNException("E_FAIL"), Exc("timed out") }

\* One protocol-client call: the i-th call of the step fails iff i \in fails.
Call(fn, cmd, h, i, fails) == [fn |-> fn, cmd |-> cmd, h |-> h, ok |-> i \notin fails]

\* What a handler did: the state it left, the calls it made, the exception it
\* raised (NoExc: it returned body).
Out(st, cs, exc, body) == [st |-> st, calls |-> cs, exc |-> exc, body |-> body]

\* The oracle of one step: the positions of its protocol calls that fail.  A
\* handler that stops at the first call that raises is decided by that position
\* alone.
FirstFailure(n) == {{}} \cup { {i} : i \in 1..n }

-----------------------------------------------------------------------------
\* A log that keeps only its newest entry: C10 must tell it from log_operation.
log_operation_latest_only(st, operation, params, result, error) ==
    [st EXCEPT !.operation_log =
        << [ operation |-> operation,
             params |-> params,
             result |-> IF result # NoneRec THEN Str(result) ELSE NoneRec,
             error |-> error ] >>]

\* ServerState.log_operation
log_operation(st, operation, params, result, error) ==
    [st EXCEPT !.operation_log =
        Append(@, [ operation |-> operation,
                    params |-> params,
                    result |-> IF result # NoneRec THEN Str(result) ELSE NoneRec,
                    error |-> error ])]

\* A reset that releases as reset does but forgets to clear robot_handle: C1
\* must tell it from reset.
reset_keeping_robot_handle(st, k, fails, exc) ==
    LET rel == st.client # None /\ Truthy(st.robot_handle)
        c1 == IF rel THEN << Call("robot_release", "", st.robot_handle, k + 1, fails) >>
                     ELSE << >>
        x1 == rel /\ ~c1[1].ok
        dis == ~x1 /\ st.client # None /\ Truthy(st.controller_handle)
        c2 == IF dis THEN << Call("controller_disconnect", "", st.controller_handle,
                                  k + Len(c1) + 1, fails) >>
                     ELSE << >>
        x2 == dis /\ ~c2[1].ok
    IN  IF x1 \/ x2
        THEN [st |-> st, calls |-> c1 \o c2, exc |-> exc]
        ELSE [st |-> [st EXCEPT !.client = None,
                                !.controller_handle = None,
                                !.connection_info = EmptyDict],
              calls |-> c1 \o c2, exc |-> NoExc]

\* ServerState.reset; k protocol calls were made before it in the step.
\* Returns [st, calls, exc].
reset(st, k, fails, exc) ==
    LET rel == st.client # None /\ Truthy(st.robot_handle)
        c1 == IF rel THEN << Call("robot_release", "", st.robot_handle, k + 1, fails) >>
                     ELSE << >>
        x1 == rel /\ ~c1[1].ok
        dis == ~x1 /\ st.client # None /\ Truthy(st.controller_handle)
        c2 == IF dis THEN << Call("controller_disconnect", "", st.controller_handle,
                                  k + Len(c1) + 1, fails) >>
                     ELSE << >>
        x2 == dis /\ ~c2[1].ok
    IN  IF x1 \/ x2
        THEN [st |-> st, calls |-> c1 \o c2, exc |-> exc]
        ELSE [st |-> [st EXCEPT !.client = None,
                                !.controller_handle = None,
                                !.robot_handle = None,
                                !.connection_info = EmptyDict],
              calls |-> c1 \o c2, exc |-> NoExc]

-----------------------------------------------------------------------------
\* Texts built by the handlers: the fixed prefix and the variable part.
Text(prefix, text) == [prefix |-> prefix, text |-> text]

\* get_error_description: the fixed table, unknown codes keep the raw code
get_error_description(hresult) ==
    CASE hresult = "E_TIMEOUT" -> [text |-> "Connection timeout", code |-> ""]
      [] hresult = "E_NOT_CONNECTED" -> [text |-> "Not connected", code |-> ""]
      [] hresult = "E_ACCESSDENIED" -> [text |-> "Access denied", code |-> ""]
      [] hresult = "E_INVALIDARG" -> [text |-> "Invalid parameter", code |-> ""]
      [] hresult = "E_CAO_OBJECT_NOTFOUND" -> [text |-> "Object not found", code |-> ""]
      [] hresult = "E_CAO_VARIANT_TYPE_NOSUPPORT" -> [text |-> "Unsupported variable type", code |-> ""]
      [] hresult = "E_FAIL" -> [text |-> "Operation failed", code |-> ""]
      [] OTHER -> [text |-> "Unknown error", code |-> hresult]

\* the precondition messages
NeedConnect == Exc("Please call bcap_connect first to establish connection")
NeedController == Exc("Please call bcap_controller_connect first")
NeedRobot == Exc("Please call bcap_robot_connect first")

-----------------------------------------------------------------------------
\* Tool handlers.  Each takes the state, the argument dict, the oracle (fails,
\* exc) and ret, the handle a handle-returning protocol call returns.

handle_connect(st, args, fails, exc, ret) ==
    LET host == args.host
        port == Get(args, "port", DefaultPort)
        timeout == Get(args, "timeout", DefaultTimeout)
        r == IF st.client # None THEN reset(st, 0, fails, exc)
                                 ELSE [st |-> st, calls |-> << >>, exc |-> NoExc]
        new == Call("BCAPClient", "", host, Len(r.calls) + 1, fails)
        info == [host |-> host, port |-> port, timeout |-> timeout]
        st2 == [r.st EXCEPT !.client = host, !.connection_info = info]
        result == [success |-> TRUE, connection_info |-> info]
    IN  IF r.exc # NoExc THEN Out(r.st, r.calls, r.exc, NoneRec)
        ELSE IF ~new.ok THEN Out(r.st, r.calls \o << new >>, exc, NoneRec)
        ELSE Out(log_operation(st2, "bcap_connect", args, result, NoneRec),
                 r.calls \o << new >>, NoExc, result)

handle_disconnect(st, args, fails, exc, ret) ==
    IF st.client = None
    THEN Out(st, << >>, NoExc, [success |-> FALSE, error |-> Text("", "Not connected")])
    ELSE LET r == reset(st, 0, fails, exc)
             result == [success |-> TRUE]
         IN  IF r.exc # NoExc THEN Out(r.st, r.calls, r.exc, NoneRec)
             ELSE Out(log_operation(r.st, "bcap_disconnect", args, result, NoneRec),
                      r.calls, NoExc, result)

\* A status that tests the handles for truth instead of "is not None": C8 must
\* tell it from handle_get_connection_status.
handle_get_connection_status_by_truth(st, args, fails, exc, ret) ==
    Out(st, << >>, NoExc,
        [ connected |-> st.client # None,
          controller_connected |-> Truthy(st.controller_handle),
          robot_connected |-> Truthy(st.robot_handle),
          connection_info |-> IF st.client # None THEN st.connection_info ELSE NoneRec ])

handle_get_connection_status(st, args, fails, exc, ret) ==
    Out(st, << >>, NoExc,
        [ connected |-> st.client # None,
          controller_connected |-> st.controller_handle # None,
          robot_connected |-> st.robot_handle # None,
          connection_info |-> IF st.client # None THEN st.connection_info ELSE NoneRec ])

handle_controller_connect(st, args, fails, exc, ret) ==
    IF st.client = None THEN Out(st, << >>, NeedConnect, NoneRec)
    ELSE LET c == Call("controller_connect", "", ret, 1, fails)
             st2 == [st EXCEPT !.controller_handle = ret]
             result == [success |-> TRUE, controller_handle |-> ret]
         IN  IF ~c.ok THEN Out(st, << c >>, exc, NoneRec)
             ELSE Out(log_operation(st2, "bcap_controller_connect", args, result, NoneRec),
                      << c >>, NoExc, result)

\* A robot-connect without the controller precondition: C2 must tell it from
\* handle_robot_connect.
handle_robot_connect_unguarded(st, args, fails, exc, ret) ==
    LET c == Call("controller_getrobot", "", st.controller_handle, 1, fails)
        st2 == [st EXCEPT !.robot_handle = ret]
        result == [success |-> TRUE, robot_handle |-> ret]
    IN  IF ~c.ok THEN Out(st, << c >>, exc, NoneRec)
        ELSE Out(log_operation(st2, "bcap_robot_connect", args, result, NoneRec),
                 << c >>, NoExc, result)

handle_robot_connect(st, args, fails, exc, ret) ==
    IF ~Truthy(st.controller_handle) THEN Out(st, << >>, NeedController, NoneRec)
    ELSE LET c == Call("controller_getrobot", "", st.controller_handle, 1, fails)
             st2 == [st EXCEPT !.robot_handle = ret]
             result == [success |-> TRUE, robot_handle |-> ret]
         IN  IF ~c.ok THEN Out(st, << c >>, exc, NoneRec)
             ELSE Out(log_operation(st2, "bcap_robot_connect", args, result, NoneRec),
                      << c >>, NoExc, result)

\* Not dispatched by call_tool (a direct call only): checks the controller
\* handle, not the robot handle it acquires the arm on, and logs under the name
\* of robot-connect.
handle_robot_takearm(st, args, fails, exc, ret) ==
    IF ~Truthy(st.controller_handle) THEN Out(st, << >>, NeedController, NoneRec)
    ELSE LET c == Call("robot_execute", "TakeArm", st.robot_handle, 1, fails)
             result == [success |-> TRUE, robot_handle |-> st.robot_handle]
         IN  IF ~c.ok THEN Out(st, << c >>, exc, NoneRec)
             ELSE Out(log_operation(st, "bcap_robot_connect", args, result, NoneRec),
                      << c >>, NoExc, result)

\* A straight-line run of protocol calls: specs[i] = <<fn, cmd, handle>> is the
\* (k+i)-th call of the step; the run stops at the first call that raises.
CallSeq(specs, k, fails) ==
    [i \in 1..Len(specs) |-> Call(specs[i][1], specs[i][2], specs[i][3], k + i, fails)]

Failed(cs) == \E i \in 1..Len(cs) : ~cs[i].ok

Attempt(cs) ==
    IF Failed(cs)
    THEN SubSeq(cs, 1, CHOOSE i \in 1..Len(cs) : ~cs[i].ok /\ \A j \in 1..(i - 1) : cs[j].ok)
    ELSE cs

handle_controller_get_robot_names(st, args, fails, exc, ret) ==
    IF ~Truthy(st.controller_handle) THEN Out(st, << >>, NeedController, NoneRec)
    ELSE LET c == Call("controller_getrobotnames", "", st.controller_handle, 1, fails)
             result == [success |-> TRUE, robot_names |-> "Arm"]
         IN  IF ~c.ok THEN Out(st, << c >>, exc, NoneRec)
             ELSE Out(log_operation(st, "bcap_controller_get_robot_names", args, result, NoneRec),
                      << c >>, NoExc, result)

handle_controller_get_variable_names(st, args, fails, exc, ret) ==
    IF ~Truthy(st.controller_handle) THEN Out(st, << >>, NeedController, NoneRec)
    ELSE LET c == Call("controller_getvariablenames", "", st.controller_handle, 1, fails)
             result == [success |-> TRUE, variable_names |-> << "V1", "V2" >>]
         IN  IF ~c.ok THEN Out(st, << c >>, exc, NoneRec)
             ELSE Out(log_operation(st, "bcap_controller_get_variable_names", args, result, NoneRec),
                      << c >>, NoExc, result)

\* result is what controller_execute returned
handle_controller_clear_error(st, args, fails, exc, ret) ==
    IF ~Truthy(st.controller_handle) THEN Out(st, << >>, NeedController, NoneRec)
    ELSE LET c == Call("controller_execute", "ClearError", st.controller_handle, 1, fails)
             result == [success |-> TRUE, result |-> 0]
         IN  IF ~c.ok THEN Out(st, << c >>, exc, NoneRec)
             ELSE Out(log_operation(st, "bcap_controller_clear_error", args, result, NoneRec),
                      << c >>, NoExc, result)

handle_robot_get_variable_names(st, args, fails, exc, ret) ==
    IF ~Truthy(st.robot_handle) THEN Out(st, << >>, NeedRobot, NoneRec)
    ELSE LET c == Call("robot_getvariablenames", "", st.robot_handle, 1, fails)
             result == [success |-> TRUE,
                        variable_names |-> << "@CURRENT_ANGLE", "@CURRENT_POSITION" >>]
         IN  IF ~c.ok THEN Out(st, << c >>, exc, NoneRec)
             ELSE Out(log_operation(st, "bcap_robot_get_variable_names", args, result, NoneRec),
                      << c >>, NoExc, result)

handle_robot_get_variable(st, args, fails, exc, ret) ==
    IF ~Truthy(st.robot_handle) THEN Out(st, << >>, NeedRobot, NoneRec)
    ELSE LET cs == Attempt(CallSeq(<< <<"robot_getvariable", args.name, st.robot_handle>>,
                                      <<"variable_getvalue", "", ret>>,
                                      <<"variable_release", "", ret>> >>, 0, fails))
             result == [success |-> TRUE, variable_name |-> args.name, value |-> "value"]
         IN  IF Failed(cs) THEN Out(st, cs, exc, NoneRec)
             ELSE Out(log_operation(st, "bcap_robot_get_variable", args, result, NoneRec),
                      cs, NoExc, result)

\* "192.168.0.1", the host handle_robot_move_to_joint_angles falls back to
DefaultHost == 0

\* Texts are strings of the 256 characters of Latin-1; Len and SubSeq read them
\* character by character.

\* one character of a text
Char(s, i) == SubSeq(s, i, i)

\* the smallest member of a set of numbers that is not empty
Least(S) == CHOOSE i \in S : \A j \in S : i <= j

\* str.find from a position: the first index at or after from where pat starts
\* in s, 0 when there is none
Find(s, pat, from) ==
    CHOOSE r \in { IF hits = {} THEN 0 ELSE Least(hits) :
                   hits \in { { i \in from..(Len(s) - Len(pat) + 1) :
                                SubSeq(s, i, i + Len(pat) - 1) = pat } } } : TRUE

\* option.split("Speed=")[1]: what stands between the first "Speed=" and the
\* next one (or the end)
AfterSpeed(option) ==
    CHOOSE r \in UNION { { SubSeq(option, start, IF next = 0 THEN Len(option) ELSE next - 1) :
                           next \in { Find(option, "Speed=", start) } } :
                         start \in { Find(option, "Speed=", 1) + 6 } } : TRUE

\* the characters str.split() splits at, among the 256 a text is made of here:
\* space, \t, \n, \r, \f, and written as themselves the vertical tab (0x0B),
\* the separators 0x1C to 0x1F, next line (0x85) and no-break space (0xA0)
Whitespace ==
    { " ", "\t", "\n", "\r", "\f", "", "", "", "", "", "", " " }

\* s.split()[0]: the first run of characters that are not whitespace; there is
\* none (IndexError) when found is FALSE.  black: where s is not whitespace;
\* white: where it is, behind the first such place.
FirstWord(s) ==
    CHOOSE r \in UNION { {
        IF black = {} THEN [found |-> FALSE, text |-> ""]
        ELSE [found |-> TRUE,
              text |-> SubSeq(s, Least(black), IF white = {} THEN Len(s) ELSE Least(white) - 1)] :
        white \in { { i \in 1..Len(s) : i \notin black /\ \E j \in black : j < i } } } :
        black \in { { i \in 1..Len(s) : Char(s, i) \notin Whitespace } } } : TRUE

\* s.split(",")[0]
UpToComma(s) ==
    CHOOSE r \in { IF i = 0 THEN s ELSE SubSeq(s, 1, i - 1) : i \in { Find(s, ",", 1) } } : TRUE

\* the value of a decimal digit, -1 for any other character
DigitOf(c) == Find("0123456789", c, 1) - 1

\* the digits of a float literal from position i on: digits, single underscores
\* between two digits allowed; val and n are the value and the number of the
\* digits read so far, pos is where the run ends
RECURSIVE ScanDigits(_, _, _, _)
ScanDigits(s, i, val, n) ==
    IF i <= Len(s) /\ DigitOf(Char(s, i)) >= 0
    THEN ScanDigits(s, i + 1, 10 * val + DigitOf(Char(s, i)), n + 1)
    ELSE IF i < Len(s) /\ Char(s, i) = "_" /\ n > 0 /\ DigitOf(Char(s, i + 1)) >= 0
    THEN ScanDigits(s, i + 1, val, n)
    ELSE [pos |-> i, val |-> val, n |-> n]

\* the exponent of a float literal at position i: e or E, a sign or none, and
\* digits (n of them); n is 1 and val 0 when there is no exponent
Exponent(s, i) ==
    IF i <= Len(s) /\ Char(s, i) \in { "e", "E" }
    THEN IF i < Len(s) /\ Char(s, i + 1) = "-"
         THEN CHOOSE r \in { [pos |-> x.pos, val |-> 0 - x.val, n |-> x.n] :
                             x \in { ScanDigits(s, i + 2, 0, 0) } } : TRUE
         ELSE ScanDigits(s, IF i < Len(s) /\ Char(s, i + 1) = "+" THEN i + 2 ELSE i + 1, 0, 0)
    ELSE [pos |-> i, val |-> 0, n |-> 1]

\* a float as m * 10^e with m not a multiple of 10 (0 is m = 0, e = 0)
RECURSIVE Float(_, _)
Float(m, e) ==
    IF m = 0 THEN [m |-> 0, e |-> 0]
    ELSE IF m % 10 = 0 THEN Float(m \div 10, e + 1)
    ELSE [m |-> m, e |-> e]

\* the text is the word, each letter in lower or in upper case
IsWord(s, lower, upper) ==
    Len(s) = Len(lower) /\ \A i \in 1..Len(lower) : Char(s, i) \in { Char(lower, i), Char(upper, i) }

\* float(s) behind the sign: inf, infinity or nan in any case, or digits with
\* at most one point (a: before it, b: with those behind it) and an exponent
\* (x) that reach the end of the text; NoneRec when float raises ValueError
ParseUnsigned(s, sign) ==
    IF IsWord(s, "inf", "INF") \/ IsWord(s, "infinity", "INFINITY") THEN [inf |-> sign]
    ELSE IF IsWord(s, "nan", "NAN") THEN [nan |-> TRUE]
    ELSE CHOOSE r \in UNION { UNION { {
             IF a.n + b.n >= 1 /\ x.n >= 1 /\ x.pos = Len(s) + 1
             THEN Float(sign * b.val, x.val - b.n)
             ELSE NoneRec :
             x \in { Exponent(s, b.pos) } } :
             b \in { IF a.pos <= Len(s) /\ Char(s, a.pos) = "."
                     THEN ScanDigits(s, a.pos + 1, a.val, 0)
                     ELSE [pos |-> a.pos, val |-> a.val, n |-> 0] } } :
             a \in { ScanDigits(s, 1, 0, 0) } } : TRUE

\* float(s) for a text without whitespace
ParseFloat(s) ==
    IF Len(s) > 0 /\ Char(s, 1) = "-" THEN ParseUnsigned(SubSeq(s, 2, Len(s)), 0 - 1)
    ELSE IF Len(s) > 0 /\ Char(s, 1) = "+" THEN ParseUnsigned(SubSeq(s, 2, Len(s)), 1)
    ELSE ParseUnsigned(s, 1)

\* the speed handle_robot_move_to_joint_angles parses out of option: the float
\* behind the first "Speed=", up to whitespace or a comma; NoneRec (speed_value
\* None) when option is empty or has no "Speed=", or when the parse raises
ParseSpeed(option) ==
    IF option = "" \/ Find(option, "Speed=", 1) = 0 THEN NoneRec
    ELSE CHOOSE r \in { IF ~word.found THEN NoneRec ELSE ParseFloat(UpToComma(word.text)) :
                        word \in { FirstWord(AfterSpeed(option)) } } : TRUE

\* A joint move that keeps the handles of its own connection in the session
\* state: C40 must tell it from handle_robot_move_to_joint_angles.
handle_robot_move_to_joint_angles_storing_handles(st, args, fails, exc, ret) ==
    LET host == Get(st.connection_info, "host", DefaultHost)
        option == Get(args, "option", "")
        new == Call("BCAPClient", "", host, 1, fails)
        pre == Attempt(CallSeq(<< <<"controller_connect", "", ret>>,
                                  <<"controller_getrobot", "", ret>>,
                                  <<"robot_getvariable", "@CURRENT_ANGLE", ret>>,
                                  <<"variable_getvalue", "", ret>>,
                                  <<"variable_release", "", ret>>,
                                  <<"robot_execute", "TakeArm", ret>> >>, 1, fails))
        speed == IF ParseSpeed(option) # NoneRec
                 THEN << Call("robot_speed", "", ret, Len(pre) + 2, fails) >>
                 ELSE << >>
        post == Attempt(CallSeq(<< <<"robot_move", "J", ret>>,
                                   <<"robot_release", "", ret>>,
                                   <<"controller_disconnect", "", ret>> >>,
                                Len(pre) + Len(speed) + 1, fails))
        failure == [success |-> FALSE, error |-> Text("", exc)]
        st2 == [st EXCEPT !.controller_handle = ret, !.robot_handle = ret]
    IN  IF ~new.ok THEN Out(st, << new >>, exc, NoneRec)
        ELSE IF Failed(pre) THEN Out(st2, << new >> \o pre, NoExc, failure)
        ELSE IF Failed(post) THEN Out(st2, << new >> \o pre \o speed \o post, NoExc, failure)
        ELSE Out(st2, << new >> \o pre \o speed \o post, NoExc,
                 [success |-> TRUE, previous_joint_angles |-> "value",
                  target_joint_angles |-> args.joint_angles])

\* Opens its own client, controller and robot; never touches the session state
\* and never logs.  The client is created outside the try block.
handle_robot_move_to_joint_angles(st, args, fails, exc, ret) ==
    LET host == Get(st.connection_info, "host", DefaultHost)
        option == Get(args, "option", "")
        new == Call("BCAPClient", "", host, 1, fails)
        pre == Attempt(CallSeq(<< <<"controller_connect", "", ret>>,
                                  <<"controller_getrobot", "", ret>>,
                                  <<"robot_getvariable", "@CURRENT_ANGLE", ret>>,
                                  <<"variable_getvalue", "", ret>>,
                                  <<"variable_release", "", ret>>,
                                  <<"robot_execute", "TakeArm", ret>> >>, 1, fails))
        speed == IF ParseSpeed(option) # NoneRec
                 THEN << Call("robot_speed", "", ret, Len(pre) + 2, fails) >>
                 ELSE << >>
        post == Attempt(CallSeq(<< <<"robot_move", "J", ret>>,
                                   <<"robot_release", "", ret>>,
                                   <<"controller_disconnect", "", ret>> >>,
                                Len(pre) + Len(speed) + 1, fails))
        failure == [success |-> FALSE, error |-> Text("", exc)]
    IN  IF ~new.ok THEN Out(st, << new >>, exc, NoneRec)
        ELSE IF Failed(pre) THEN Out(st, << new >> \o pre, NoExc, failure)
        ELSE IF Failed(post) THEN Out(st, << new >> \o pre \o speed \o post, NoExc, failure)
        ELSE Out(st, << new >> \o pre \o speed \o post, NoExc,
                 [success |-> TRUE, previous_joint_angles |-> "value",
                  target_joint_angles |-> args.joint_angles])

\* list[:-start], the oldest entries instead of the newest: C11 must tell it
\* from SliceFrom.
SliceFrom_head(list, start) ==
    LET n == Len(list)
        e == IF start > 0 THEN 0 ELSE (IF 0 - start < n THEN 0 - start ELSE n)
    IN  SubSeq(list, 1, e)

\* list[start:] of Python
SliceFrom(list, start) ==
    LET n == Len(list)
        b == IF start < 0 THEN (IF n + start > 0 THEN n + start ELSE 0)
                          ELSE (IF start < n THEN start ELSE n)
    IN  SubSeq(list, b + 1, n)

DefaultLimit == 50

handle_get_operation_log(st, args, fails, exc, ret) ==
    LET limit == Get(args, "limit", DefaultLimit)
        logs == SliceFrom(st.operation_log, 0 - limit)
    IN  Out(st, << >>, NoExc,
            [success |-> TRUE, total_operations |-> Len(st.operation_log),
             returned_count |-> Len(logs), logs |-> logs])

-----------------------------------------------------------------------------
\* Trajectories.  A point is a tuple of numbers; a protocol call that carries a
\* point records it (arg) and the 1-based index of the point (idx).

CallArg(fn, cmd, h, arg, idx, i, fails) ==
    [fn |-> fn, cmd |-> cmd, h |-> h, arg |-> arg, idx |-> idx, ok |-> i \notin fails]

\* the calls of cs that returned (ok = TRUE) or raised (ok = FALSE), in order
Which(cs, ok) == SelectSeq(cs, LAMBDA c : c.ok = ok)

\* Validation that looks at the first point only: C15 must tell it from
\* FirstBadPoint.
FirstBadPoint_head_only(trajectory) ==
    IF Len(trajectory) > 0 /\ Len(trajectory[1]) # 6 THEN 1 ELSE 0

\* the validation loop: the index of the first point that has not 6 values, 0
\* when every point has
FirstBadPoint(trajectory) ==
    IF \E i \in 1..Len(trajectory) : Len(trajectory[i]) # 6
    THEN CHOOSE i \in 1..Len(trajectory) :
            /\ Len(trajectory[i]) # 6
            /\ \A j \in 1..(i - 1) : Len(trajectory[j]) = 6
    ELSE 0

\* the ValueError of the validation loop
BadPoint(i) == ValueError("Trajectory point " \o ToString(i) \o " must have 6 joint angle values")

\* "Get initial position": three calls in one try, a failure is logged and ignored
ReadInitialAngles(st, fails) ==
    Attempt(CallSeq(<< <<"robot_getvariable", "@CURRENT_ANGLE", st.robot_handle>>,
                       <<"variable_getvalue", "", 1>>,
                       <<"variable_release", "", 1>> >>, 0, fails))

\* initial_angles: assigned as soon as variable_getvalue (the second call) has
\* returned, also when variable_release raises after it; None before that
InitialAngles(read) == IF Len(read) >= 2 /\ read[2].ok THEN [angles |-> "current"] ELSE NoneRec

\* A move loop that gives up at the first move that raises: C16 must tell it
\* from MoveEach.
MoveEach_until_failure(st, trajectory, k, fails) ==
    Attempt([ i \in 1..Len(trajectory) |->
                CallArg("robot_move", "J", st.robot_handle, trajectory[i], i, k + i, fails) ])

\* the move loop of the discrete mode: one robot_move per point, a failure is
\* recorded and the loop goes on; k calls were made before
MoveEach(st, trajectory, k, fails) ==
    [ i \in 1..Len(trajectory) |->
        CallArg("robot_move", "J", st.robot_handle, trajectory[i], i, k + i, fails) ]

\* executed_points / failed_points as the loops append them
ExecutedDetails(trajectory, moves) ==
    LET ok == Which(moves, TRUE)
    IN  [ j \in 1..Len(ok) |->
            [index |-> ok[j].idx, angles |-> trajectory[ok[j].idx], status |-> "success"] ]

FailedDetails(trajectory, moves, exc) ==
    LET bad == Which(moves, FALSE)
    IN  [ j \in 1..Len(bad) |->
            [index |-> bad[j].idx, angles |-> trajectory[bad[j].idx], error |-> Text("", exc)] ]

\* A result that reports success as soon as one point was executed: C17 must
\* tell it from TrajectoryResult.
TrajectoryResult_any_executed(trajectory, moves, initial, exc) ==
    LET executed == ExecutedDetails(trajectory, moves)
        failed == FailedDetails(trajectory, moves, exc)
    IN  [ success |-> Len(executed) > 0,
          total_points |-> Len(trajectory),
          executed_points |-> Len(executed),
          failed_points |-> Len(failed),
          initial_angles |-> initial,
          trajectory |-> trajectory,
          executed_details |-> executed,
          failed_details |-> IF Len(failed) > 0 THEN failed ELSE NoneRec ]

\* the result of a trajectory that ran to its end
TrajectoryResult(trajectory, moves, initial, exc) ==
    LET executed == ExecutedDetails(trajectory, moves)
        failed == FailedDetails(trajectory, moves, exc)
    IN  [ success |-> Len(failed) = 0,
          total_points |-> Len(trajectory),
          executed_points |-> Len(executed),
          failed_points |-> Len(failed),
          initial_angles |-> initial,
          trajectory |-> trajectory,
          executed_details |-> executed,
          failed_details |-> IF Len(failed) > 0 THEN failed ELSE NoneRec ]

\* A discrete mode that swallows a failed TakeArm and moves all the same: C31
\* must tell it from handle_robot_execute_trajectory.
handle_robot_execute_trajectory_moving_unacquired(st, args, fails, exc, ret) ==
    IF ~Truthy(st.robot_handle) THEN Out(st, << >>, NeedRobot, NoneRec)
    ELSE IF FirstBadPoint(args.trajectory) # 0
    THEN Out(st, << >>, BadPoint(FirstBadPoint(args.trajectory)), NoneRec)
    ELSE LET read == ReadInitialAngles(st, fails)
             give == Call("robot_execute", "GiveArm", st.robot_handle, Len(read) + 1, fails)
             take == Call("robot_execute", "TakeArm", st.robot_handle, Len(read) + 2, fails)
             moves == MoveEach(st, args.trajectory, Len(read) + 2, fails)
             result == TrajectoryResult(args.trajectory, moves, InitialAngles(read), exc)
         IN  Out(log_operation(st, "bcap_robot_execute_trajectory", args, result, NoneRec),
                 read \o << give, take >> \o moves, NoExc, result)

handle_robot_execute_trajectory(st, args, fails, exc, ret) ==
    IF ~Truthy(st.robot_handle) THEN Out(st, << >>, NeedRobot, NoneRec)
    ELSE IF FirstBadPoint(args.trajectory) # 0
    THEN Out(st, << >>, BadPoint(FirstBadPoint(args.trajectory)), NoneRec)
    ELSE LET read == ReadInitialAngles(st, fails)
             give == Call("robot_execute", "GiveArm", st.robot_handle, Len(read) + 1, fails)
             take == Call("robot_execute", "TakeArm", st.robot_handle, Len(read) + 2, fails)
             moves == MoveEach(st, args.trajectory, Len(read) + 2, fails)
             result == TrajectoryResult(args.trajectory, moves, InitialAngles(read), exc)
         IN  IF ~take.ok THEN Out(st, read \o << give, take >>, exc, NoneRec)
             ELSE Out(log_operation(st, "bcap_robot_execute_trajectory", args, result, NoneRec),
                      read \o << give, take >> \o moves, NoExc, result)

\* the slvChangeMode arguments: 0x202 enters slave mode, 0x000 leaves it
SlaveModeOn == 514
SlaveModeOff == 0

\* the start of the slave try block: TakeArm, enter slave mode, the first point
\* (if any); the first of them that raises ends the block
EnterSlave(st, trajectory, k, fails) ==
    Attempt(<< CallArg("robot_execute", "TakeArm", st.robot_handle, << 0, 0 >>, 0, k + 1, fails),
               CallArg("robot_execute", "slvChangeMode", st.robot_handle, SlaveModeOn, 0, k + 2, fails) >>
            \o (IF Len(trajectory) > 0
                THEN << CallArg("robot_execute", "slvMove", st.robot_handle,
                                trajectory[1] \o << 0, 0 >>, 1, k + 3, fails) >>
                ELSE << >>))

\* A stream that gives up at the first point that raises: C20 must tell it from
\* StreamRest.
StreamRest_until_failure(st, trajectory, k, fails) ==
    Attempt([ j \in 1..(Len(trajectory) - 1) |->
                CallArg("robot_execute", "slvMove", st.robot_handle,
                        trajectory[j + 1] \o << 0, 0 >>, j + 1, k + j, fails) ])

\* the loop over the points after the first: one slvMove each, a failure is
\* recorded and the loop goes on
StreamRest(st, trajectory, k, fails) ==
    [ j \in 1..(Len(trajectory) - 1) |->
        CallArg("robot_execute", "slvMove", st.robot_handle,
                trajectory[j + 1] \o << 0, 0 >>, j + 1, k + j, fails) ]

\* An end of the slave try block that releases the arm before it leaves slave
\* mode: C33 must tell it from ExitSlave.
ExitSlave_release_first(st, k, fails) ==
    Attempt(<< CallArg("robot_execute", "GiveArm", st.robot_handle, NoneRec, 0, k + 1, fails),
               CallArg("robot_execute", "slvChangeMode", st.robot_handle, SlaveModeOff, 0, k + 2, fails) >>)

\* the end of the slave try block: leave slave mode, then GiveArm
ExitSlave(st, k, fails) ==
    Attempt(<< CallArg("robot_execute", "slvChangeMode", st.robot_handle, SlaveModeOff, 0, k + 1, fails),
               CallArg("robot_execute", "GiveArm", st.robot_handle, NoneRec, 0, k + 2, fails) >>)

\* A cleanup that issues slvChangeMode a second time when it raised: C28 must
\* tell it from Cleanup.
Cleanup_retrying(st, k, fails) ==
    LET off == CallArg("robot_execute", "slvChangeMode", st.robot_handle, SlaveModeOff, 0, k + 1, fails)
        again == CallArg("robot_execute", "slvChangeMode", st.robot_handle, SlaveModeOff, 0, k + 2, fails)
        give == CallArg("robot_execute", "GiveArm", st.robot_handle, NoneRec, 0, k + 2, fails)
    IN  IF off.ok THEN << off, give >> ELSE << off, again >>

\* the cleanup of the except block: both calls sit in one try, so GiveArm is
\* skipped when slvChangeMode raises; whatever raises is ignored
Cleanup(st, k, fails) ==
    Attempt(<< CallArg("robot_execute", "slvChangeMode", st.robot_handle, SlaveModeOff, 0, k + 1, fails),
               CallArg("robot_execute", "GiveArm", st.robot_handle, NoneRec, 0, k + 2, fails) >>)

\* the slvMove calls among cs
Streamed(cs) == SelectSeq(cs, LAMBDA c : c.cmd = "slvMove")

handle_robot_execute_slave_trajectory(st, args, fails, exc, ret) ==
    IF ~Truthy(st.robot_handle) THEN Out(st, << >>, NeedRobot, NoneRec)
    ELSE IF FirstBadPoint(args.trajectory) # 0
    THEN Out(st, << >>, BadPoint(FirstBadPoint(args.trajectory)), NoneRec)
    ELSE LET read == ReadInitialAngles(st, fails)
             head == EnterSlave(st, args.trajectory, Len(read), fails)
             rest == StreamRest(st, args.trajectory, Len(read) + Len(head), fails)
             tail == ExitSlave(st, Len(read) + Len(head) + Len(rest), fails)
             main == IF Failed(head) THEN head ELSE head \o rest \o tail
             cleanup == Cleanup(st, Len(read) + Len(main), fails)
             points == Streamed(main)
             failure == [ success |-> FALSE,
                          total_points |-> Len(args.trajectory),
                          executed_points |-> Len(Which(points, TRUE)),
                          failed_points |-> Len(Which(points, FALSE)),
                          initial_angles |-> InitialAngles(read),
                          error |-> Text("", exc) ]
             result == TrajectoryResult(args.trajectory, points, InitialAngles(read), exc)
                          @@ [mode |-> "slave_mode"]
         IN  IF Failed(main)
                /\ (Failed(head) \/ Failed(tail))
             THEN Out(log_operation(st, "bcap_robot_execute_slave_trajectory", args, failure, NoneRec),
                      read \o main \o cleanup, NoExc, failure)
             ELSE Out(log_operation(st, "bcap_robot_execute_slave_trajectory", args, result, NoneRec),
                      read \o main, NoExc, result)

-----------------------------------------------------------------------------
\* Pick-and-place.  Its numbers that may carry a fraction (cm, mm, degrees) are
\* counted in 3000ths: 4.0 cm is 12000, 40.0 mm is 120000.  A number with three
\* decimals is then a multiple of 3, and the third of a length (step_up_mm,
\* line 1443) is a whole number again; the arithmetic is exact, the binary
\* rounding of the program's floats is not modelled.  The oracle names the program
\* points of the handler: slot 1..3 the initial read, 4 the gripper of step 1,
\* 5, 6 TakeArm and robot_move of step 2, 7 step 3, 8..13 steps 4..6, 14, 15
\* step 7, 16, 17 step 8, 18 step 9, 19, 20 step 10, 21..23 the final read.  A
\* call carries the number of its step (idx).

\* args.get defaults, and the two HandMoveA openings (30.0 and 21.0 mm)
DefaultPickDown == 12000
DefaultLiftUp == 27000
DefaultPlaceY == 7500
DefaultPlaceDown == 9000
DefaultGripperSpeed == 100
GripperOpen == 90000
GripperGrip == 63000

\* A conversion that leaves the centimetres as they are: C25 must tell it from
\* CmToMm.
CmToMm_unconverted(cm) == cm

\* "Convert to millimeters"
CmToMm(cm) == cm * 10

\* a local variable read before any assignment to it
UnboundLocalError(name) == [type |-> "UnboundLocalError", msg |-> name, hresult |-> ""]

\* pose[:6]
Take6(pose) == SubSeq(pose, 1, IF Len(pose) < 6 THEN Len(pose) ELSE 6)

\* reading @CURRENT_POSITION: three calls, the first that raises ends them;
\* pose is what variable_getvalue answers (ret of its call) when it returns
ReadPosition(st, step, k, fails, pose) ==
    Attempt(<< CallArg("robot_getvariable", "@CURRENT_POSITION", st.robot_handle, "", step, k + 1, fails),
               CallArg("variable_getvalue", "", 1, "", step, k + 2, fails) @@ [ret |-> pose],
               CallArg("variable_release", "", 1, "", step, k + 3, fails) >>)

\* a gripper step: one HandMoveA
GripperStep(st, step, dist, speed, k, fails) ==
    << CallArg("controller_execute", "HandMoveA", st.controller_handle, << dist, speed >>,
               step, k + 1, fails) >>

\* A move step that issues its move whatever TakeArm did: C29 must tell it from
\* MoveStep.
MoveStep_ignoring_acquisition(st, step, target, k, fails) ==
    << CallArg("robot_execute", "TakeArm", st.robot_handle, << 0, 0 >>, step, k + 1, fails),
       CallArg("robot_move", "P", st.robot_handle, target, step, k + 2, fails) >>

\* a move step: TakeArm, then robot_move to target unless TakeArm raised
MoveStep(st, step, target, k, fails) ==
    Attempt(<< CallArg("robot_execute", "TakeArm", st.robot_handle, << 0, 0 >>, step, k + 1, fails),
               CallArg("robot_move", "P", st.robot_handle, target, step, k + 2, fails) >>)

\* the record and the error text of a failed step
StepFailed(step, action, note, e) ==
    [ step |-> step, action |-> action, status |-> "failed",
      error |-> Text("Step " \o ToString(step) \o " failed" \o note \o ": ", e) ]

\* the records of successful steps
StepGripper(step, action, dist, speed) ==
    [ step |-> step, action |-> action, gripper_distance_mm |-> dist, speed |-> speed,
      status |-> "success" ]

StepMove(step, action, distance_mm, position) ==
    [ step |-> step, action |-> action, distance_mm |-> distance_mm, position |-> position,
      status |-> "success" ]

\* errors, as the except blocks append it along with the failed records
ErrorsOf(steps) ==
    LET bad == SelectSeq(steps, LAMBDA s : s.status = "failed")
    IN  [ j \in 1..Len(bad) |-> bad[j].error ]

\* A result of the outer except block that reports success: C21 must tell it
\* from AbortResult.
AbortResult_success(steps, e) ==
    [ success |-> TRUE, error |-> Text("", e), steps |-> steps, errors |-> ErrorsOf(steps) ]

\* the result of the outer except block
AbortResult(steps, e) ==
    [ success |-> FALSE, error |-> Text("", e), steps |-> steps, errors |-> ErrorsOf(steps) ]

\* lift_up_mm / 3: the exact quotient, a whole number of 3000ths for every
\* length that has three decimals (and defined for no other)
Third(mm) == CHOOSE q \in { mm \div 3 } : 3 * q = mm

\* The locals of the handler once the initial read has returned pose: the
\* captured components, the distances in mm, and pick_z, current_z, place_y
\* with the names of those that have been assigned (bound).
PickLocals(args, pose) ==
    [ x |-> pose[1], y |-> pose[2], z |-> pose[3],
      rx |-> pose[4], ry |-> pose[5], rz |-> pose[6],
      pick_down_mm |-> CmToMm(Get(args, "pick_down_distance", DefaultPickDown)),
      step_up_mm |-> Third(CmToMm(Get(args, "lift_up_distance", DefaultLiftUp))),
      place_y_mm |-> CmToMm(Get(args, "place_y_offset", DefaultPlaceY)),
      place_down_mm |-> CmToMm(Get(args, "place_down_distance", DefaultPlaceDown)),
      gripper_speed |-> Get(args, "gripper_speed", DefaultGripperSpeed),
      pick_z |-> 0, current_z |-> 0, place_y |-> 0, bound |-> {} ]

\* the slot of the first protocol call of step n
FirstSlot(n) == << 4, 5, 7, 8, 10, 12, 14, 16, 18, 19 >>[n]

\* the action names of the steps 1..10
ActionOf(n) ==
    << "open_gripper", "move_down_to_pick", "close_gripper", "lift_up_1", "lift_up_2",
       "lift_up_3", "move_y_to_place", "move_down_to_place", "open_gripper",
       "return_to_initial_position" >>[n]

\* steps 1, 3 and 9: HandMoveA in a try of its own
PickGripper(st, n, a, fails, exc) ==
    LET dist == IF n = 3 THEN GripperGrip ELSE GripperOpen
        s == GripperStep(st, n, dist, a.v.gripper_speed, FirstSlot(n) - 1, fails)
    IN  [a EXCEPT !.calls = @ \o s,
                  !.steps = Append(@, IF s[1].ok
                                      THEN StepGripper(n, ActionOf(n), dist, a.v.gripper_speed)
                                      ELSE StepFailed(n, ActionOf(n), " (may be simulator limitation)", exc))]

\* a move step of the handler: the locals in set are assigned (to the values
\* of v2) once TakeArm has returned, then the move to target is issued
PickMove(st, n, a, v2, set, target, distance_mm, fails, exc) ==
    LET s == MoveStep(st, n, target, FirstSlot(n) - 1, fails)
    IN  [a EXCEPT !.calls = @ \o s,
                  !.v = IF s[1].ok THEN [v2 EXCEPT !.bound = @ \cup set] ELSE @,
                  !.steps = Append(@, IF ~Failed(s)
                                      THEN StepMove(n, ActionOf(n), distance_mm, target)
                                      ELSE StepFailed(n, ActionOf(n), "", exc))]

\* "current_z = pick_z", between step 3 and step 4 and outside every inner
\* try: pick_z is unbound when the TakeArm of step 2 raised
BindCurrentZ(a) ==
    IF "pick_z" \in a.v.bound
    THEN [a EXCEPT !.v.current_z = a.v.pick_z, !.v.bound = @ \cup {"current_z"}]
    ELSE [a EXCEPT !.raised = UnboundLocalError("pick_z")]

\* step 8: TakeArm, then the move that reads place_y, which is unbound when the
\* TakeArm of step 7 raised; the NameError is caught by the try of step 8
PickPlaceDown(st, a, fails, exc) ==
    LET v == a.v
        place_z == v.current_z - v.place_down_mm
        target == << v.x, v.place_y, place_z, v.rx, v.ry, v.rz >>
        take == MoveStep(st, 8, target, FirstSlot(8) - 1, fails)[1]
    IN  IF take.ok /\ "place_y" \notin v.bound
        THEN [a EXCEPT !.calls = Append(@, take),
                       !.steps = Append(@, StepFailed(8, ActionOf(8), "", UnboundLocalError("place_y")))]
        ELSE PickMove(st, 8, a, v, {}, target, v.place_down_mm, fails, exc)

\* step n of 1..10 on the accumulated calls, step records and locals
PickStep(st, n, a, fails, exc) ==
    LET v == a.v
    IN  CASE n \in {1, 3, 9} -> PickGripper(st, n, a, fails, exc)
          [] n = 2 ->
               PickMove(st, n, a, [v EXCEPT !.pick_z = v.z - v.pick_down_mm], {"pick_z"},
                        << v.x, v.y, v.z - v.pick_down_mm, v.rx, v.ry, v.rz >>,
                        v.pick_down_mm, fails, exc)
          [] n \in 4..6 ->
               PickMove(st, n, a, [v EXCEPT !.current_z = v.current_z + v.step_up_mm], {},
                        << v.x, v.y, v.current_z + v.step_up_mm, v.rx, v.ry, v.rz >>,
                        v.step_up_mm, fails, exc)
          [] n = 7 ->
               PickMove(st, n, a, [v EXCEPT !.place_y = v.y + v.place_y_mm], {"place_y"},
                        << v.x, v.y + v.place_y_mm, v.current_z, v.rx, v.ry, v.rz >>,
                        v.place_y_mm, fails, exc)
          [] n = 8 -> PickPlaceDown(st, a, fails, exc)
          [] n = 10 ->
               LET s == MoveStep(st, n, << v.x, v.y, v.z, v.rx, v.ry, v.rz >>,
                                 FirstSlot(n) - 1, fails)
               IN  [a EXCEPT !.calls = @ \o s,
                             !.steps = Append(@, IF ~Failed(s)
                                                 THEN [ step |-> 10, action |-> ActionOf(10),
                                                        position |-> << v.x, v.y, v.z, v.rx, v.ry, v.rz >>,
                                                        status |-> "success" ]
                                                 ELSE StepFailed(10, ActionOf(10), "", exc))]

\* what precedes step n outside its try, then the step
PickNext(st, n, a, fails, exc) ==
    IF n # 4 THEN PickStep(st, n, a, fails, exc)
    ELSE IF "pick_z" \notin a.v.bound THEN BindCurrentZ(a)
    ELSE CHOOSE r \in { PickStep(st, n, b, fails, exc) : b \in { BindCurrentZ(a) } } : TRUE

\* the steps n..10 in order; what is raised outside the inner tries ends them
RECURSIVE PickStepsFrom(_, _, _, _, _)
PickStepsFrom(st, n, a, fails, exc) ==
    IF n > 10 \/ a.raised # NoExc THEN a
    ELSE CHOOSE r \in { PickStepsFrom(st, n + 1, b, fails, exc) :
                        b \in { PickNext(st, n, a, fails, exc) } } : TRUE

\* the end of the handler: the final read, outside every inner try, and the
\* result; a holds the calls, the step records and what the steps raised, pose
\* and final are initial_pose and final_pose as the client answered them
PickResult(st, args, pose, final, a, fails, exc) ==
    LET readF == ReadPosition(st, 11, 20, fails, final)
        errors == ErrorsOf(a.steps)
    IN  IF a.raised # NoExc THEN [calls |-> a.calls, result |-> AbortResult(a.steps, a.raised)]
        ELSE IF Failed(readF)
        THEN [calls |-> a.calls \o readF, result |-> AbortResult(a.steps, exc)]
        ELSE [ calls |-> a.calls \o readF,
               result |->
                 [ success |-> Len(errors) = 0,
                   initial_position |-> Take6(pose),
                   final_position |-> Take6(final),
                   parameters |->
                     [ pick_down_distance_cm |-> Get(args, "pick_down_distance", DefaultPickDown),
                       lift_up_distance_cm |-> Get(args, "lift_up_distance", DefaultLiftUp),
                       place_y_offset_cm |-> Get(args, "place_y_offset", DefaultPlaceY),
                       place_down_distance_cm |-> Get(args, "place_down_distance", DefaultPlaceDown),
                       gripper_speed |-> Get(args, "gripper_speed", DefaultGripperSpeed) ],
                   steps |-> a.steps,
                   errors |-> IF Len(errors) > 0 THEN errors ELSE NoneRec ] ]

\* the try block of the handler: the calls it makes and the result it builds
PickRun(st, args, pose, final, fails, exc) ==
    LET read0 == ReadPosition(st, 0, 0, fails, pose)
        v == PickLocals(args, pose)
        r0 == [ step |-> 0, action |-> "get_initial_position",
                position |-> << v.x, v.y, v.z, v.rx, v.ry, v.rz >>, status |-> "success" ]
    IN  IF Failed(read0) THEN [calls |-> read0, result |-> AbortResult(<< >>, exc)]
        ELSE CHOOSE r \in
               { PickResult(st, args, pose, final, a, fails, exc) :
                 a \in { PickStepsFrom(st, 1, a0, fails, exc) :
                         a0 \in { [v |-> v, calls |-> read0, steps |-> << r0 >>, raised |-> NoExc] } } } : TRUE

\* ret holds the two poses variable_getvalue returns for @CURRENT_POSITION:
\* ret.initial at the start, ret.final in the final read.
handle_robot_pick_and_place(st, args, fails, exc, ret) ==
    IF ~Truthy(st.controller_handle) THEN Out(st, << >>, NeedController, NoneRec)
    ELSE IF ~Truthy(st.robot_handle) THEN Out(st, << >>, NeedRobot, NoneRec)
    ELSE CHOOSE o \in
           { Out(log_operation(st, "bcap_robot_pick_and_place", args, r.result, NoneRec),
                 r.calls, NoExc, r.result) :
             r \in { PickRun(st, args, ret.initial, ret.final, fails, exc) } } : TRUE

-----------------------------------------------------------------------------
\* The single pose move, go-home, speed set and the gripper.

\* ret is the pose variable_getvalue returns for @CURRENT_POSITION.
handle_robot_move_to_pose(st, args, fails, exc, ret) ==
    IF ~Truthy(st.robot_handle) THEN Out(st, << >>, NeedRobot, NoneRec)
    ELSE IF Len(args.pose) # 6
    THEN Out(st, << >>, ValueError("Position and orientation must be 6 values"), NoneRec)
    ELSE LET read == ReadPosition(st, 0, 0, fails, ret)
             move == MoveStep(st, 0, args.pose, 3, fails)
             result == [success |-> TRUE, target_pose |-> args.pose, previous_pose |-> ret]
         IN  IF Failed(read) THEN Out(st, read, exc, NoneRec)
             ELSE IF Failed(move) THEN Out(st, read \o move, exc, NoneRec)
             ELSE Out(log_operation(st, "bcap_robot_move_to_pose", args, result, NoneRec),
                      read \o move, NoExc, result)

\* A go-home whose stale GiveArm is not caught: C32 must tell it from
\* handle_robot_gohome.
handle_robot_gohome_release_uncaught(st, args, fails, exc, ret) ==
    IF ~Truthy(st.robot_handle) THEN Out(st, << >>, NeedRobot, NoneRec)
    ELSE LET read == ReadInitialAngles(st, fails)
             home == Attempt(CallSeq(<< <<"robot_execute", "GiveArm", st.robot_handle>>,
                                        <<"robot_execute", "TakeArm", st.robot_handle>>,
                                        <<"robot_gohome", "", st.robot_handle>> >>, 3, fails))
             result == [success |-> TRUE, previous_joint_angles |-> "current"]
         IN  IF Failed(read) THEN Out(st, read, exc, NoneRec)
             ELSE IF Failed(home) THEN Out(st, read \o home, exc, NoneRec)
             ELSE Out(log_operation(st, "bcap_robot_gohome", args, result, NoneRec),
                      read \o home, NoExc, result)

\* GiveArm sits in a try of its own: whatever it raises is ignored
handle_robot_gohome(st, args, fails, exc, ret) ==
    IF ~Truthy(st.robot_handle) THEN Out(st, << >>, NeedRobot, NoneRec)
    ELSE LET read == ReadInitialAngles(st, fails)
             give == Call("robot_execute", "GiveArm", st.robot_handle, 4, fails)
             home == Attempt(CallSeq(<< <<"robot_execute", "TakeArm", st.robot_handle>>,
                                        <<"robot_gohome", "", st.robot_handle>> >>, 4, fails))
             result == [success |-> TRUE, previous_joint_angles |-> "current"]
         IN  IF Failed(read) THEN Out(st, read, exc, NoneRec)
             ELSE IF Failed(home) THEN Out(st, read \o << give >> \o home, exc, NoneRec)
             ELSE Out(log_operation(st, "bcap_robot_gohome", args, result, NoneRec),
                      read \o << give >> \o home, NoExc, result)

\* args.get defaults of handle_robot_set_speed (axis 0: all axes; 50.0 percent)
DefaultAxis == 0
DefaultSpeed == 50

handle_robot_set_speed(st, args, fails, exc, ret) ==
    IF ~Truthy(st.robot_handle) THEN Out(st, << >>, NeedRobot, NoneRec)
    ELSE LET axis == Get(args, "axis", DefaultAxis)
             speed == Get(args, "speed", DefaultSpeed)
             c == CallArg("robot_speed", "", st.robot_handle, << axis, speed >>, 0, 1, fails)
             result == [success |-> TRUE, axis |-> axis, speed |-> speed]
         IN  IF ~c.ok THEN Out(st, << c >>, exc, NoneRec)
             ELSE Out(log_operation(st, "bcap_robot_set_speed", args, result, NoneRec),
                      << c >>, NoExc, result)

\* The gripper distance is in metres, counted in thousandths (0.03 m is 30);
\* dist * 1000 is the distance in mm, in thousandths again.
GripperMaxDist == 30
DefaultOpenDist == 30
DefaultOpenSpeed == 100
DefaultCloseDist == 0
DefaultCloseSpeed == 20

\* A range check that leaves out the upper end: C26 must tell it from DistOk.
DistOk_open_end(dist) == 0 <= dist /\ dist < GripperMaxDist

\* 0 <= dist <= 0.03
DistOk(dist) == 0 <= dist /\ dist <= GripperMaxDist

BadDist == ValueError("Distance must be between 0 and 0.03 meters")

handle_robot_open_gripper(st, args, fails, exc, ret) ==
    IF ~Truthy(st.controller_handle) THEN Out(st, << >>, NeedController, NoneRec)
    ELSE LET dist == Get(args, "dist", DefaultOpenDist)
             speed == Get(args, "speed", DefaultOpenSpeed)
             c == CallArg("controller_execute", "HandMoveA", st.controller_handle,
                          << dist * 1000, speed >>, 0, 1, fails)
             result == [success |-> TRUE, action |-> "open_gripper",
                        distance_mm |-> dist * 1000, speed |-> speed]
         IN  IF ~DistOk(dist) THEN Out(st, << >>, BadDist, NoneRec)
             ELSE IF ~c.ok THEN Out(st, << c >>, exc, NoneRec)
             ELSE Out(log_operation(st, "bcap_robot_open_gripper", args, result, NoneRec),
                      << c >>, NoExc, result)

handle_robot_close_gripper(st, args, fails, exc, ret) ==
    IF ~Truthy(st.controller_handle) THEN Out(st, << >>, NeedController, NoneRec)
    ELSE LET dist == Get(args, "dist", DefaultCloseDist)
             speed == Get(args, "speed", DefaultCloseSpeed)
             c == CallArg("controller_execute", "HandMoveA", st.controller_handle,
                          << dist * 1000, speed >>, 0, 1, fails)
             result == [success |-> TRUE, action |-> "close_gripper",
                        distance_mm |-> dist * 1000, speed |-> speed]
         IN  IF ~DistOk(dist) THEN Out(st, << >>, BadDist, NoneRec)
             ELSE IF ~c.ok THEN Out(st, << c >>, exc, NoneRec)
             ELSE Out(log_operation(st, "bcap_robot_close_gripper", args, result, NoneRec),
                      << c >>, NoExc, result)

-----------------------------------------------------------------------------
\* the handler call_tool dispatches name to; any other name raises ValueError
Dispatch(name, st, args, fails, exc, ret) ==
    CASE name = "bcap_connect" -> handle_connect(st, args, fails, exc, ret)
      [] name = "bcap_disconnect" -> handle_disconnect(st, args, fails, exc, ret)
      [] name = "bcap_get_connection_status" -> handle_get_connection_status(st, args, fails, exc, ret)
      [] name = "bcap_controller_connect" -> handle_controller_connect(st, args, fails, exc, ret)
      [] name = "bcap_controller_get_robot_names" -> handle_controller_get_robot_names(st, args, fails, exc, ret)
      [] name = "bcap_controller_get_variable_names"
            -> handle_controller_get_variable_names(st, args, fails, exc, ret)
      [] name = "bcap_controller_clear_error" -> handle_controller_clear_error(st, args, fails, exc, ret)
      [] name = "bcap_robot_connect" -> handle_robot_connect(st, args, fails, exc, ret)
      [] name = "bcap_robot_get_variable" -> handle_robot_get_variable(st, args, fails, exc, ret)
      [] name = "bcap_robot_get_variable_names"
            -> handle_robot_get_variable_names(st, args, fails, exc, ret)
      [] name = "bcap_robot_move_to_joint_angles" -> handle_robot_move_to_joint_angles(st, args, fails, exc, ret)
      [] name = "bcap_robot_move_to_pose" -> handle_robot_move_to_pose(st, args, fails, exc, ret)
      [] name = "bcap_robot_gohome" -> handle_robot_gohome(st, args, fails, exc, ret)
      [] name = "bcap_robot_set_speed" -> handle_robot_set_speed(st, args, fails, exc, ret)
      [] name = "bcap_robot_execute_trajectory" -> handle_robot_execute_trajectory(st, args, fails, exc, ret)
      [] name = "bcap_robot_execute_slave_trajectory" -> handle_robot_execute_slave_trajectory(st, args, fails, exc, ret)
      [] name = "bcap_robot_open_gripper" -> handle_robot_open_gripper(st, args, fails, exc, ret)
      [] name = "bcap_robot_close_gripper" -> handle_robot_close_gripper(st, args, fails, exc, ret)
      [] name = "bcap_robot_pick_and_place" -> handle_robot_pick_and_place(st, args, fails, exc, ret)
      [] name = "bcap_get_operation_log" -> handle_get_operation_log(st, args, fails, exc, ret)
      [] OTHER -> Out(st, << >>, ValueError("Unknown tool"), NoneRec)

\* A call_tool that catches ORiNException only: C14 must tell it from Envelope.
Envelope_orin_only(name, args, o) ==
    LET orin == [prefix |-> "ORiN error", hresult |-> o.exc.hresult,
                 description |-> get_error_description(o.exc.hresult)]
    IN  IF o.exc = NoExc THEN o
        ELSE IF o.exc.type = "ORiNException"
        THEN Out(log_operation(o.st, name, args, NoneRec, orin), o.calls, NoExc,
                 [success |-> FALSE, error |-> orin, hresult |-> o.exc.hresult])
        ELSE o

\* the except branches of call_tool: what the handler returned, or the logged
\* error envelope of what it raised
Envelope(name, args, o) ==
    LET orin == [prefix |-> "ORiN error", hresult |-> o.exc.hresult,
                 description |-> get_error_description(o.exc.hresult)]
        other == Text("Error: ", o.exc)
    IN  IF o.exc = NoExc THEN o
        ELSE IF o.exc.type = "ORiNException"
        THEN Out(log_operation(o.st, name, args, NoneRec, orin), o.calls, NoExc,
                 [success |-> FALSE, error |-> orin, hresult |-> o.exc.hresult])
        ELSE Out(log_operation(o.st, name, args, NoneRec, other), o.calls, NoExc,
                 [success |-> FALSE, error |-> other])

\* call_tool: dispatch, then the envelope
call_tool(name, st, args, fails, exc, ret) ==
    CHOOSE r \in { Envelope(name, args, o) : o \in { Dispatch(name, st, args, fails, exc, ret) } } : TRUE

-----------------------------------------------------------------------------
\* The requests the model issues.

\* host 1 is requested with the default port and timeout, the others with their own
ConnectArgs ==
    { IF h = 1 THEN [host |-> h]
               ELSE [host |-> h, port |-> DefaultPort + h, timeout |-> DefaultTimeout + h]
      : h \in Hosts }

MoveJointArgs ==
    { [joint_angles |-> "J1"] }
    \cup { [joint_angles |-> "J1", option |-> o] :
            o \in { "Speed=50", "NEXT,Speed=80.5 x", "Speed=abc", "Speed=", "NEXT" } }

LogArgs == { EmptyDict } \cup { [limit |-> l] : l \in (0 - 1)..MaxLog }

NoResponse == [tool |-> "", args |-> EmptyDict, body |-> NoneRec]

\* The states a behaviour starts in: the fresh server, and the server after a
\* successful prefix of the start-up sequence connect, controller-connect,
\* robot-connect, for every handle the protocol client may return.
StartStates ==
    LET c == { call_tool("bcap_connect", ServerState, [host |-> 1], {}, NoExc, None).st }
        cc == { call_tool("bcap_controller_connect", s, EmptyDict, {}, NoExc, h).st :
                s \in c, h \in Handles }
        rc == { call_tool("bcap_robot_connect", s, EmptyDict, {}, NoExc, h).st :
                s \in { t \in cc : Truthy(t.controller_handle) }, h \in Handles }
    IN  {ServerState} \cup c \cup cc \cup rc

\* A behaviour starts in one of StartStates and appends at most MaxLog entries
\* to the log it starts with.
Init ==
    \E st \in StartStates :
        /\ client = st.client
        /\ controller_handle = st.controller_handle
        /\ robot_handle = st.robot_handle
        /\ connection_info = st.connection_info
        /\ operation_log = st.operation_log
        /\ response = NoResponse
        /\ calls = << >>
        /\ ctrl_in_session = (st.controller_handle # None)
        /\ after_reset = FALSE
        /\ log_start = Len(st.operation_log)
        /\ tasks = EmptyDict
        /\ running = None
        /\ events = << >>

\* the step ends a session: the old client is gone (reset ran to its end)
EndsSession(name, o) ==
    \/ name \in {"bcap_connect", "bcap_disconnect"} /\ o.exc = NoExc /\ o.body.success
    \/ name = "bcap_connect" /\ \E i \in 1..Len(o.calls) : o.calls[i].fn = "BCAPClient"

\* One request through call_tool; the server takes it once the previous
\* response is out.  call_tool itself serves any number of requests and the log
\* grows without limit: the comparison with MaxLog is the bound of the
\* exploration, which follows a behaviour until it has appended MaxLog entries
\* to the log it started with.
Step(name, args, fails, exc, ret) ==
    /\ response = NoResponse
    /\ \E o \in { call_tool(name, state, args, fails, exc, ret) } :
        /\ Len(o.st.operation_log) <= log_start + MaxLog
        /\ client' = o.st.client
        /\ controller_handle' = o.st.controller_handle
        /\ robot_handle' = o.st.robot_handle
        /\ connection_info' = o.st.connection_info
        /\ operation_log' = o.st.operation_log
        /\ response' = [tool |-> name, args |-> args, body |-> o.body, raised |-> o.exc]
        /\ calls' = o.calls
        /\ ctrl_in_session' =
              IF name = "bcap_controller_connect" /\ o.exc = NoExc /\ o.body.success THEN TRUE
              ELSE IF EndsSession(name, o) THEN FALSE
              ELSE ctrl_in_session
        /\ after_reset' = FALSE
        /\ log_start' = log_start
        /\ UNCHANGED << tasks, running, events >>

\* the exceptions worth choosing between: one when no call fails
Raises(fails) == IF fails = {} THEN {NoExc} ELSE ProtoExcs

Connect ==
    \E args \in ConnectArgs, fails \in FirstFailure(3) : \E exc \in Raises(fails) :
        Step("bcap_connect", args, fails, exc, None)

Disconnect ==
    \E fails \in FirstFailure(2) : \E exc \in Raises(fails) :
        Step("bcap_disconnect", EmptyDict, fails, exc, None)

GetConnectionStatus ==
    Step("bcap_get_connection_status", EmptyDict, {}, NoExc, None)

ControllerConnect ==
    \E fails \in FirstFailure(1), ret \in Handles : \E exc \in Raises(fails) :
        Step("bcap_controller_connect", EmptyDict, fails, exc, ret)

ControllerGetRobotNames ==
    \E fails \in FirstFailure(1) : \E exc \in Raises(fails) :
        Step("bcap_controller_get_robot_names", EmptyDict, fails, exc, None)

RobotConnect ==
    \E fails \in FirstFailure(1), ret \in Handles : \E exc \in Raises(fails) :
        Step("bcap_robot_connect", EmptyDict, fails, exc, ret)

ControllerGetVariableNames ==
    \E fails \in FirstFailure(1) : \E exc \in Raises(fails) :
        Step("bcap_controller_get_variable_names", EmptyDict, fails, exc, None)

ControllerClearError ==
    \E fails \in FirstFailure(1) : \E exc \in Raises(fails) :
        Step("bcap_controller_clear_error", EmptyDict, fails, exc, None)

RobotGetVariableNames ==
    \E fails \in FirstFailure(1) : \E exc \in Raises(fails) :
        Step("bcap_robot_get_variable_names", EmptyDict, fails, exc, None)

RobotGetVariable ==
    \E fails \in FirstFailure(3) : \E exc \in Raises(fails) :
        Step("bcap_robot_get_variable", [name |-> "@CURRENT_ANGLE"], fails, exc, 1)

\* the failure of robot_speed (the 8th call) is swallowed: it may come with a
\* later failure
RobotMoveToJointAngles ==
    \E args \in MoveJointArgs :
    \E fails \in FirstFailure(11) \cup { {8, j} : j \in 9..11 } : \E exc \in Raises(fails) :
        Step("bcap_robot_move_to_joint_angles", args, fails, exc, 1)

GetOperationLog ==
    \E args \in LogArgs : Step("bcap_get_operation_log", args, {}, NoExc, None)

UnknownTool ==
    Step("bcap_robot_takearm", EmptyDict, {}, NoExc, None)

\* handle_robot_takearm called on its own: nothing catches what it raises
RobotTakeArm ==
    \E fails \in FirstFailure(1) : \E exc \in Raises(fails) :
        /\ response = NoResponse
        /\ \E o \in { handle_robot_takearm(state, EmptyDict, fails, exc, None) } :
            /\ Len(o.st.operation_log) <= log_start + MaxLog
            /\ operation_log' = o.st.operation_log
            /\ response' = [tool |-> "handle_robot_takearm", args |-> EmptyDict,
                            body |-> o.body, raised |-> o.exc]
            /\ calls' = o.calls
            /\ after_reset' = FALSE
            /\ UNCHANGED << client, controller_handle, robot_handle, connection_info,
                            ctrl_in_session, log_start, tasks, running, events >>

\* ServerState.reset called on its own
Reset ==
    \E fails \in FirstFailure(2) : \E exc \in Raises(fails) :
        LET r == reset(state, 0, fails, exc)
        IN  /\ response = NoResponse
            /\ client' = r.st.client
            /\ controller_handle' = r.st.controller_handle
            /\ robot_handle' = r.st.robot_handle
            /\ connection_info' = r.st.connection_info
            /\ operation_log' = r.st.operation_log
            /\ response' = [tool |-> "reset", args |-> EmptyDict, body |-> [raised |-> r.exc]]
            /\ calls' = r.calls
            /\ ctrl_in_session' = IF r.exc = NoExc THEN FALSE ELSE ctrl_in_session
            /\ after_reset' = TRUE
            /\ log_start' = log_start
            /\ UNCHANGED << tasks, running, events >>

\* The response goes out to the caller; the server is ready for the next request.
Return ==
    /\ response # NoResponse
    /\ response' = NoResponse
    /\ calls' = << >>
    /\ UNCHANGED << client, controller_handle, robot_handle, connection_info,
                    operation_log, ctrl_in_session, after_reset, log_start,
                    tasks, running, events >>

Next ==
    \/ Connect
    \/ Disconnect
    \/ GetConnectionStatus
    \/ ControllerConnect
    \/ ControllerGetRobotNames
    \/ ControllerGetVariableNames
    \/ ControllerClearError
    \/ RobotConnect
    \/ RobotGetVariable
    \/ RobotGetVariableNames
    \/ GetOperationLog
    \/ UnknownTool
    \/ RobotTakeArm
    \/ Reset
    \/ Return

Spec == Init /\ [][Next]_vars

\* The joint move on its own: it opens a client of its own and leaves the
\* session state alone, so it is explored apart from the session operations.
NextMove ==
    \/ RobotMoveToJointAngles
    \/ GetConnectionStatus
    \/ Return

SpecMove == Init /\ [][NextMove]_vars

-----------------------------------------------------------------------------
\* The two trajectory operations.  They read robot_handle and client and write
\* nothing but the log, so each is explored as the first operation on every
\* start state.

\* the i-th point of a trajectory, with n values
Point(i, n) == [ k \in 1..n |-> IF k = 1 THEN 10 * i ELSE 0 ]

\* trajectories of 6-value points, and those with one point of 5 or of 7 values
Trajectories ==
    { [ i \in 1..n |-> Point(i, IF i # bad THEN 6 ELSE IF i % 2 = 1 THEN 5 ELSE 7) ] :
        n \in 0..MaxPoints, bad \in 0..MaxPoints }

\* the calls that fail in one step: at most MaxFaults of the first n
FaultSets(n) == { f \in SUBSET (1..n) : Cardinality(f) <= MaxFaults }

\* discrete mode makes at most 5 + MaxPoints calls
DiscreteFaults == FaultSets(5 + MaxPoints)

\* slave mode makes at most 9 + MaxPoints calls
SlaveFaults == FaultSets(9 + MaxPoints)

ExecuteTrajectory ==
    \E trajectory \in Trajectories, fails \in DiscreteFaults : \E exc \in Raises(fails) :
        /\ Len(operation_log) = log_start
        /\ Step("bcap_robot_execute_trajectory", [trajectory |-> trajectory], fails, exc, None)

ExecuteSlaveTrajectory ==
    \E trajectory \in Trajectories, fails \in SlaveFaults : \E exc \in Raises(fails) :
        /\ Len(operation_log) = log_start
        /\ Step("bcap_robot_execute_slave_trajectory", [trajectory |-> trajectory], fails, exc, None)

NextTraj ==
    \/ ExecuteTrajectory
    \/ ExecuteSlaveTrajectory
    \/ Return

SpecTraj == Init /\ [][NextTraj]_vars

-----------------------------------------------------------------------------
\* Pick-and-place, explored as the first operation on every start state.

\* what the robot reports as @CURRENT_POSITION to the pose move: x, y, z, rx,
\* ry, rz and the figure; mm and degrees in thousandths
Poses == { << 300000, 0 - 50000, 200000, 180000, 0, 90000, 5 >>,
           << 250500, 120000, 40000, 0, 0, 0, 1 >> }

\* the sets of at most k of the program points 1..n
RECURSIVE UpTo(_, _)
UpTo(k, n) ==
    IF k = 0 THEN {{}}
    ELSE LET less == UpTo(k - 1, n)
         IN  less \cup { f \cup {i} : f \in less, i \in 1..n }

\* pick-and-place has 23 program points that call the protocol client
PickFaults == UpTo(MaxPickFaults, 23)

\* the requests explored, in 3000ths: the defaults on a robot at (300, -50,
\* 200) mm, and a request that names every distance (2.5, 1.0, -1.5 and 1.0
\* cm: a lift whose third has no finite decimal, an offset that is negative)
\* on a robot at (250.5, 120, 40) mm.  In the final read the client reports the
\* initial pose again, or, for the first robot, a pose 0.5 mm higher.
PickInputs ==
    { [ args |-> EmptyDict,
        ret |-> [ initial |-> << 900000, 0 - 150000, 600000, 540000, 0, 270000, 5 >>,
                  final |-> f ] ] :
        f \in { << 900000, 0 - 150000, 600000, 540000, 0, 270000, 5 >>,
                << 900000, 0 - 150000, 601500, 540000, 0, 270000, 5 >> } }
    \cup
    { [ args |-> [ pick_down_distance |-> 7500, lift_up_distance |-> 3000,
                   place_y_offset |-> 0 - 4500, place_down_distance |-> 3000,
                   gripper_speed |-> 50 ],
        ret |-> [ initial |-> << 751500, 360000, 120000, 0, 0, 0, 1 >>,
                  final |-> << 751500, 360000, 120000, 0, 0, 0, 1 >> ] ] }

PickAndPlace ==
    \E input \in PickInputs, fails \in PickFaults : \E exc \in Raises(fails) :
        /\ Len(operation_log) = log_start
        /\ Step("bcap_robot_pick_and_place", input.args, fails, exc, input.ret)

NextPick ==
    \/ PickAndPlace
    \/ Return

SpecPick == Init /\ [][NextPick]_vars

-----------------------------------------------------------------------------
\* The command primitives, each on every start state.

\* gripper distances around both ends of the range, with and without a speed
GripperArgs ==
    { EmptyDict, [dist |-> 15, speed |-> 50] }
    \cup { [dist |-> d] : d \in {0 - 10, 0 - 1, 0, 1, 29, 30, 31, 50} }

\* a pose of 6 values (with and without an option), of 5 and of 7
PoseArgs ==
    { [pose |-> << 300000, 0, 250000, 180000, 0, 90000 >>],
      [pose |-> << 300000, 0, 250000, 180000, 0, 90000 >>, option |-> "Speed=50"],
      [pose |-> << 300000, 0, 250000, 180000, 0 >>],
      [pose |-> << 300000, 0, 250000, 180000, 0, 90000, 5 >>] }

SpeedArgs == { EmptyDict, [axis |-> 1, speed |-> 80] }

\* no request is being served and the behaviour has logged nothing yet
Idle == response = NoResponse /\ Len(operation_log) = log_start

RobotMoveToPose ==
    /\ Idle
    /\ \E args \in PoseArgs, pose \in Poses, fails \in FirstFailure(5) : \E exc \in Raises(fails) :
           Step("bcap_robot_move_to_pose", args, fails, exc, pose)

\* the failure of GiveArm (the 4th call) is swallowed: it may come with a later
\* failure
RobotGoHome ==
    /\ Idle
    /\ \E fails \in FirstFailure(6) \cup { {4, j} : j \in 5..6 } : \E exc \in Raises(fails) :
           Step("bcap_robot_gohome", EmptyDict, fails, exc, None)

RobotSetSpeed ==
    /\ Idle
    /\ \E args \in SpeedArgs, fails \in FirstFailure(1) : \E exc \in Raises(fails) :
           Step("bcap_robot_set_speed", args, fails, exc, None)

RobotOpenGripper ==
    /\ Idle
    /\ \E args \in GripperArgs, fails \in FirstFailure(1) : \E exc \in Raises(fails) :
           Step("bcap_robot_open_gripper", args, fails, exc, None)

RobotCloseGripper ==
    /\ Idle
    /\ \E args \in GripperArgs, fails \in FirstFailure(1) : \E exc \in Raises(fails) :
           Step("bcap_robot_close_gripper", args, fails, exc, None)

NextPrim ==
    \/ Idle /\ ControllerConnect
    \/ Idle /\ RobotGetVariable
    \/ Idle /\ RobotMoveToJointAngles
    \/ RobotMoveToPose
    \/ RobotGoHome
    \/ RobotSetSpeed
    \/ RobotOpenGripper
    \/ RobotCloseGripper
    \/ Return

SpecPrim == Init /\ [][NextPrim]_vars

-----------------------------------------------------------------------------
\* Every operation but connect and disconnect, each on every start state, with
\* no protocol call or one of them failing.

TrajectoryOnce ==
    /\ Idle
    /\ \E trajectory \in Trajectories, fails \in FirstFailure(5 + MaxPoints) :
       \E exc \in Raises(fails) :
           Step("bcap_robot_execute_trajectory", [trajectory |-> trajectory], fails, exc, None)

SlaveTrajectoryOnce ==
    /\ Idle
    /\ \E trajectory \in Trajectories, fails \in FirstFailure(9 + MaxPoints) :
       \E exc \in Raises(fails) :
           Step("bcap_robot_execute_slave_trajectory", [trajectory |-> trajectory], fails, exc, None)

PickAndPlaceOnce ==
    /\ Idle
    /\ \E input \in PickInputs, fails \in FirstFailure(23) : \E exc \in Raises(fails) :
           Step("bcap_robot_pick_and_place", input.args, fails, exc, input.ret)

NextFrame ==
    \/ Idle /\ ControllerConnect
    \/ Idle /\ RobotConnect
    \/ Idle /\ ControllerGetRobotNames
    \/ Idle /\ ControllerGetVariableNames
    \/ Idle /\ ControllerClearError
    \/ Idle /\ RobotGetVariable
    \/ Idle /\ RobotGetVariableNames
    \/ Idle /\ RobotTakeArm
    \/ Idle /\ RobotMoveToJointAngles
    \/ RobotMoveToPose
    \/ RobotGoHome
    \/ RobotSetSpeed
    \/ RobotOpenGripper
    \/ RobotCloseGripper
    \/ TrajectoryOnce
    \/ SlaveTrajectoryOnce
    \/ PickAndPlaceOnce
    \/ Return

SpecFrame == Init /\ [][NextFrame]_vars

-----------------------------------------------------------------------------
\* Requests made concurrently.  asyncio.run drives one event loop; the server
\* starts a call_tool coroutine for every request that comes in, and the loop
\* runs one coroutine at a time, from where it was started or left until it
\* awaits or returns.

\* the tasks of a behaviour
TaskIds == {1, 2}

\* The requests that come in: a slave trajectory and a discrete trajectory of
\* two points (the first move of the discrete one fails), a pick-and-place, a
\* variable read and a status request.
ConcRequests ==
    << [ name |-> "bcap_robot_execute_slave_trajectory",
        args |-> [trajectory |-> << Point(1, 6), Point(2, 6) >>],
        fails |-> {}, exc |-> NoExc, ret |-> None ],
      [ name |-> "bcap_robot_execute_trajectory",
        args |-> [trajectory |-> << Point(1, 6), Point(2, 6) >>],
        fails |-> {6}, exc |-> ORiNException("E_FAIL"), ret |-> None ],
      [ name |-> "bcap_robot_pick_and_place", args |-> EmptyDict,
        fails |-> {}, exc |-> NoExc,
        ret |-> [ initial |-> << 900000, 0, 600000, 540000, 0, 270000, 5 >>,
                  final |-> << 900000, 0, 600000, 540000, 0, 270000, 5 >> ] ],
      [ name |-> "bcap_robot_get_variable", args |-> [name |-> "@CURRENT_ANGLE"],
        fails |-> {}, exc |-> NoExc, ret |-> 1 ],
      [ name |-> "bcap_get_connection_status", args |-> EmptyDict,
        fails |-> {}, exc |-> NoExc, ret |-> None ] >>

\* A handler whose delays are awaited (asyncio.sleep) instead of slept through:
\* C30 must tell it from Awaits.
Awaits_at_delays(name, c) ==
    /\ c.ok
    /\ \/ c.cmd = "slvChangeMode"
       \/ name = "bcap_robot_pick_and_place" /\ c.fn \in {"robot_move", "controller_execute"}

\* The handler of name hands control back to the event loop after its call c.
\* No handler does: they contain no await, their delays are time.sleep, and
\* call_tool awaits nothing but the handler itself.
Awaits(name, c) == FALSE

\* a request comes in: its coroutine is put on the event loop, whatever the
\* loop is doing
Request ==
    \E r \in 1..Len(ConcRequests) :
        LET t == Cardinality(DOMAIN tasks) + 1
        IN  /\ t \in TaskIds
            /\ tasks' = tasks @@ (t :> [ req |-> ConcRequests[r], status |-> "pending", todo |-> << >>,
                                         out |-> NoneRec, arrived |-> Len(events) ])
            /\ UNCHANGED << client, controller_handle, robot_handle, connection_info,
                            operation_log, response, calls, ctrl_in_session, after_reset,
                            log_start, running, events >>

\* the idle loop picks a coroutine that has not returned; one that has not
\* run yet enters call_tool
Run ==
    \E t \in DOMAIN tasks :
        /\ running = None
        /\ tasks[t].status # "done"
        /\ running' = t
        /\ tasks' =
              IF tasks[t].status = "pending"
              THEN CHOOSE f \in
                     { [tasks EXCEPT ![t].status = "started", ![t].todo = o.calls,
                                     ![t].out = [st |-> o.st, body |-> o.body]] :
                       o \in { call_tool(tasks[t].req.name, state, tasks[t].req.args,
                                         tasks[t].req.fails, tasks[t].req.exc, tasks[t].req.ret) } } : TRUE
              ELSE tasks
        /\ UNCHANGED << client, controller_handle, robot_handle, connection_info,
                        operation_log, response, calls, ctrl_in_session, after_reset,
                        log_start, events >>

\* the running coroutine makes its next protocol call
Issue ==
    /\ running # None
    /\ tasks[running].todo # << >>
    /\ events' = Append(events, [task |-> running, fn |-> Head(tasks[running].todo).fn])
    /\ tasks' = [tasks EXCEPT ![running].todo = Tail(@)]
    /\ running' = IF Awaits(tasks[running].req.name, Head(tasks[running].todo))
                  THEN None ELSE running
    /\ UNCHANGED << client, controller_handle, robot_handle, connection_info,
                    operation_log, response, calls, ctrl_in_session, after_reset, log_start >>

\* the running coroutine has made its calls: it leaves the session state and
\* the log as its handler and call_tool set them, and returns
Finish ==
    /\ running # None
    /\ tasks[running].todo = << >>
    /\ client' = tasks[running].out.st.client
    /\ controller_handle' = tasks[running].out.st.controller_handle
    /\ robot_handle' = tasks[running].out.st.robot_handle
    /\ connection_info' = tasks[running].out.st.connection_info
    /\ operation_log' = tasks[running].out.st.operation_log
    /\ events' = Append(events, [task |-> running, fn |-> "return"])
    /\ tasks' = [tasks EXCEPT ![running].status = "done"]
    /\ running' = None
    /\ UNCHANGED << response, calls, ctrl_in_session, after_reset, log_start >>

NextConc ==
    \/ Request
    \/ Run
    \/ Issue
    \/ Finish

SpecConc == Init /\ [][NextConc]_vars

-----------------------------------------------------------------------------
\* Reading the log, on its own: handle_get_operation_log is a function of the
\* log and the limit, so it is explored over logs and limits.

\* Entries of calls that fail and leave a fresh session as it is: an unknown
\* tool, a connect whose client cannot be created, a controller-connect without
\* a client.
FailedCallEntries ==
    { call_tool(c[1], ServerState, c[2], c[3], c[4], None).st.operation_log[1] :
        c \in { << "bcap_robot_takearm", EmptyDict, {}, NoExc >>,
                << "bcap_connect", [host |-> 1], {1}, Exc("timed out") >>,
                << "bcap_controller_connect", EmptyDict, {}, NoExc >> } }

\* a log longer than the default limit: an unknown tool, then failed connects
LongLog ==
    [ i \in 1..(DefaultLimit + 1) |->
        IF i = 1
        THEN call_tool("bcap_robot_takearm", ServerState, EmptyDict, {}, NoExc, None).st.operation_log[1]
        ELSE call_tool("bcap_connect", ServerState, [host |-> 1], {1}, Exc("timed out"), None).st.operation_log[1] ]

Logs == UNION { [1..n -> FailedCallEntries] : n \in 0..MaxLogLen } \cup { LongLog }

LimitArgs == { EmptyDict } \cup { [limit |-> l] : l \in (0 - MaxLimit)..MaxLimit }

InitLog ==
    \E log \in Logs :
        /\ client = None
        /\ controller_handle = None
        /\ robot_handle = None
        /\ connection_info = EmptyDict
        /\ operation_log = log
        /\ response = NoResponse
        /\ calls = << >>
        /\ ctrl_in_session = FALSE
        /\ after_reset = FALSE
        /\ log_start = Len(log)
        /\ tasks = EmptyDict
        /\ running = None
        /\ events = << >>

Recent ==
    \E args \in LimitArgs : Step("bcap_get_operation_log", args, {}, NoExc, None)

NextLog ==
    \/ Recent
    \/ Return

SpecLog == InitLog /\ [][NextLog]_vars

-----------------------------------------------------------------------------
\* Reading the outcome of a step.

\* the operation names call_tool dispatches or rejects (not ServerState.reset
\* or a handler called on its own)
IsToolCall(r) == r.tool \notin {"", "reset", "handle_robot_takearm"}

\* the protocol call fn on handle h is among the first n calls of cs
Issued(cs, fn, h, n) == \E i \in 1..n : cs[i].fn = fn /\ cs[i].h = h

IsPrefix(s, t) == Len(s) <= Len(t) /\ SubSeq(t, 1, Len(s)) = s

Cleared(st) ==
    /\ st.client = None
    /\ st.controller_handle = None
    /\ st.robot_handle = None
    /\ st.connection_info = EmptyDict

-----------------------------------------------------------------------------
\* C1: in every reachable state the handles form a prefix chain: a robot handle
\* implies a controller handle, and a controller handle implies a client.
C1_HandleChain ==
    /\ robot_handle # None => controller_handle # None
    /\ controller_handle # None => client # None

\* a robot handle is held after a controller was connected a second time
C1_Witness ==
    /\ robot_handle # None
    /\ response.tool = "bcap_controller_connect"
    /\ response.body.success

\* C2: robot-connect succeeds only if a controller-connect succeeded before in the
\* same session; otherwise it returns the precondition error, calls nothing on the
\* protocol client and leaves robot_handle None.
C2_RobotConnectNeedsController ==
    (response.tool = "bcap_robot_connect" /\ ~ctrl_in_session) =>
        /\ response.body.success = FALSE
        /\ response.body.error = Text("Error: ", NeedController)
        /\ calls = << >>
        /\ robot_handle = None

\* robot-connect is rejected although a controller-connect succeeded earlier:
\* the session it belonged to has been reset since
C2_Witness ==
    /\ response.tool = "bcap_robot_connect"
    /\ ~ctrl_in_session
    /\ response.body.success = FALSE
    /\ \E i \in 1..Len(operation_log) :
          operation_log[i].operation = "bcap_controller_connect"
          /\ operation_log[i].error = NoneRec

\* C3: Reset and disconnect always end with client, handles and metadata cleared,
\* even when a release call of the protocol client fails.
C3_ResetAlwaysClears ==
    response.tool \in {"reset", "bcap_disconnect"} => Cleared(state)

\* C4: in every Reset or disconnect the robot handle (if any) is released before
\* the controller handle (if any) is disconnected, and both releases are issued
\* before client is cleared.
C4_ReverseOrderRelease ==
    [][ response'.tool \in {"reset", "bcap_disconnect"} =>
          /\ \A j \in 1..Len(calls') :
                (calls'[j].fn = "controller_disconnect" /\ robot_handle # None)
                    => Issued(calls', "robot_release", robot_handle, j - 1)
          /\ (client # None /\ client' = None) =>
                /\ robot_handle # None =>
                      Issued(calls', "robot_release", robot_handle, Len(calls'))
                /\ controller_handle # None =>
                      Issued(calls', "controller_disconnect", controller_handle, Len(calls'))
      ]_vars

\* C5: Reset called twice in a row: the second call makes no protocol-client
\* call, changes nothing and does not raise.
C5_ResetTwice ==
    [][ (after_reset /\ response'.tool = "reset") =>
          /\ calls' = << >>
          /\ state' = state
          /\ response'.body.raised = NoExc
      ]_vars

\* C6: after a successful Connect both handles are None, the handles held before
\* have been released, and the metadata is that of the new request.
C6_ConnectResetsFirst ==
    [][ (response'.tool = "bcap_connect" /\ response'.body.success) =>
          /\ controller_handle' = None
          /\ robot_handle' = None
          /\ connection_info' = [ host |-> response'.args.host,
                                  port |-> Get(response'.args, "port", DefaultPort),
                                  timeout |-> Get(response'.args, "timeout", DefaultTimeout) ]
          /\ robot_handle # None =>
                Issued(calls', "robot_release", robot_handle, Len(calls'))
          /\ controller_handle # None =>
                Issued(calls', "controller_disconnect", controller_handle, Len(calls'))
      ]_vars

\* C7: Connect fails only because creating the protocol client failed, never
\* because releasing a stale handle failed.
C7_ConnectFailsOnlyOnClient ==
    (response.tool = "bcap_connect" /\ ~response.body.success) =>
        /\ calls # << >>
        /\ calls[Len(calls)].fn = "BCAPClient"
        /\ ~calls[Len(calls)].ok

\* C8: Status returns the three connection booleans, and the metadata iff the
\* client is set; it never fails, calls nothing on the protocol client and
\* leaves the state, the log included, unchanged.
C8_StatusPureRead ==
    [][ response'.tool = "bcap_get_connection_status" =>
          /\ state' = state
          /\ calls' = << >>
          /\ DOMAIN response'.body =
                {"connected", "controller_connected", "robot_connected", "connection_info"}
          /\ response'.body.connected = (client # None)
          /\ response'.body.controller_connected = (controller_handle # None)
          /\ response'.body.robot_connected = (robot_handle # None)
          /\ response'.body.connection_info =
                (IF client # None THEN connection_info ELSE NoneRec)
      ]_vars

\* Status answered on a session holding a controller and a robot handle
C8_Witness ==
    /\ response.tool = "bcap_get_connection_status"
    /\ response.body.robot_connected
    /\ response.body.connection_info # NoneRec
    /\ operation_log # << >>

\* C9: every operation dispatched through call_tool, whether it succeeds or
\* fails, appends exactly one entry to the operation log.
C9_EveryCallLoggedOnce ==
    [][ IsToolCall(response') => Len(operation_log') = Len(operation_log) + 1 ]_vars

\* C10: the log is append-only: the log of a state is a prefix of the log of
\* every later state.
C10_LogAppendOnly ==
    [][ IsPrefix(operation_log, operation_log') ]_vars

\* the log holds the entries of a connect and of a reconnect, and has been read
C10_Witness ==
    /\ response.tool = "bcap_get_operation_log"
    /\ Len(operation_log) >= 2
    /\ operation_log[1].operation = "bcap_connect"
    /\ operation_log[2].operation = "bcap_connect"
    /\ response.body.returned_count >= 1

-----------------------------------------------------------------------------
\* C11: for every positive limit and every log, the log read returns exactly the
\* last min(limit, length) entries in insertion order; without a limit it uses 50.
C11_RecentReturnsNewest ==
    response.tool = "bcap_get_operation_log" =>
        LET limit == IF "limit" \in DOMAIN response.args THEN response.args.limit ELSE 50
            n == Len(operation_log)
            m == IF limit < n THEN limit ELSE n
        IN  limit > 0 =>
                /\ response.body.logs = SubSeq(operation_log, n - m + 1, n)
                /\ response.body.returned_count = m
                /\ response.body.total_operations = n

\* a log of 51 entries read without a limit: 50 entries come back, the oldest
\* one does not
C11_Witness ==
    /\ response.tool = "bcap_get_operation_log"
    /\ "limit" \notin DOMAIN response.args
    /\ Len(operation_log) = 51
    /\ response.body.returned_count = 50
    /\ response.body.logs[1] = operation_log[2]

\* C12: the log read with limit 0 or a negative limit returns an empty sequence.
C12_NonPositiveLimitEmpty ==
    (response.tool = "bcap_get_operation_log" /\ "limit" \in DOMAIN response.args) =>
        (response.args.limit <= 0 => response.body.logs = << >>)

-----------------------------------------------------------------------------
\* C13: the result of every operation, in every session state, contains a boolean
\* success field, and an error text when success is false.
C13_EnvelopeHasSuccess ==
    IsToolCall(response) =>
        /\ "success" \in DOMAIN response.body
        /\ response.body.success \in BOOLEAN
        /\ ~response.body.success => "error" \in DOMAIN response.body

\* C14: whatever protocol-client call fails in whatever operation, and for an
\* unknown operation name, call_tool returns a result and raises nothing.
C14_NoExceptionEscapes ==
    IsToolCall(response) =>
        /\ response.raised = NoExc
        /\ response.body # NoneRec

\* the second protocol call of a variable read raised a plain exception and the
\* caller got the error envelope
C14_Witness ==
    /\ response.tool = "bcap_robot_get_variable"
    /\ Len(calls) = 2
    /\ ~calls[2].ok
    /\ response.body.success = FALSE
    /\ response.body.error = Text("Error: ", Exc("timed out"))

-----------------------------------------------------------------------------
\* Reading the outcome of a trajectory call.

Discrete(r) == r.tool = "bcap_robot_execute_trajectory"
Slave(r) == r.tool = "bcap_robot_execute_slave_trajectory"

\* the call cmd was made as the k-th call of cs (and returned, if ok)
IsCmd(cs, k, cmd) == cs[k].fn = "robot_execute" /\ cs[k].cmd = cmd

\* arm control was acquired: TakeArm was called and returned
ArmAcquired(cs) == \E k \in 1..Len(cs) : IsCmd(cs, k, "TakeArm") /\ cs[k].ok

\* the robot_move calls / the slvMove calls of cs, in the order made
MovesOf(cs) == SelectSeq(cs, LAMBDA c : c.fn = "robot_move")
StreamOf(cs) == SelectSeq(cs, LAMBDA c : c.fn = "robot_execute" /\ c.cmd = "slvMove")

\* the entries of a detail list that carry index i
WithIndex(details, i) == { j \in 1..Len(details) : details[j].index = i }

\* C15: in both trajectory modes, a point that has not exactly 6 components,
\* wherever it is, makes the whole call fail validation with no protocol-client
\* call issued at all.
C15_BadPointNoCall ==
    ((Discrete(response) \/ Slave(response))
        /\ \E i \in 1..Len(response.args.trajectory) : Len(response.args.trajectory[i]) # 6) =>
        /\ calls = << >>
        /\ response.body.success = FALSE
        /\ Truthy(robot_handle) =>
              \E i \in 1..Len(response.args.trajectory) :
                  /\ Len(response.args.trajectory[i]) # 6
                  /\ response.body.error = Text("Error: ", BadPoint(i))

\* a slave trajectory whose third and last point has 5 components is refused on
\* a connected robot
C15_Witness ==
    /\ Slave(response)
    /\ Truthy(robot_handle)
    /\ Len(response.args.trajectory) = 3
    /\ Len(response.args.trajectory[1]) = 6
    /\ Len(response.args.trajectory[3]) = 5
    /\ response.body.success = FALSE
    /\ calls = << >>

\* C16: in discrete mode, once arm control is acquired, exactly one move is
\* issued for every point, in trajectory order, whichever moves failed.
C16_OneMovePerPoint ==
    (Discrete(response) /\ ArmAcquired(calls)) =>
        LET moves == MovesOf(calls)
        IN  /\ Len(moves) = Len(response.args.trajectory)
            /\ \A i \in 1..Len(moves) : moves[i].arg = response.args.trajectory[i]

\* three points: the first move failed, the second and third were still issued
C16_Witness ==
    /\ Discrete(response)
    /\ ArmAcquired(calls)
    /\ Len(MovesOf(calls)) = 3
    /\ ~MovesOf(calls)[1].ok
    /\ ~MovesOf(calls)[2].ok
    /\ MovesOf(calls)[3].ok

\* C17: the result of a discrete trajectory has executed_points + failed_points
\* = total_points, lists every point with its 1-based index in exactly one of
\* the executed and failed details, by whether its move succeeded, and has
\* success true iff no point failed.
C17_DiscreteResultCounts ==
    (Discrete(response) /\ ArmAcquired(calls)) =>
        LET b == response.body
            moves == MovesOf(calls)
            executed == b.executed_details
            failed == IF b.failed_points > 0 THEN b.failed_details ELSE << >>
        IN  /\ b.total_points = Len(response.args.trajectory)
            /\ b.executed_points + b.failed_points = b.total_points
            /\ b.executed_points = Len(executed)
            /\ b.failed_points = Len(failed)
            /\ \A i \in 1..b.total_points :
                  /\ Cardinality(WithIndex(executed, i)) = (IF moves[i].ok THEN 1 ELSE 0)
                  /\ Cardinality(WithIndex(failed, i)) = (IF moves[i].ok THEN 0 ELSE 1)
                  /\ \A j \in WithIndex(executed, i) :
                        executed[j].angles = response.args.trajectory[i]
                  /\ \A j \in WithIndex(failed, i) :
                        failed[j].angles = response.args.trajectory[i]
            /\ b.success = (Len(failed) = 0)

\* two points, the second move fails: one executed, one failed, success false
C17_Witness ==
    /\ Discrete(response)
    /\ ArmAcquired(calls)
    /\ response.body.total_points = 2
    /\ response.body.executed_points = 1
    /\ response.body.failed_points = 1
    /\ response.body.success = FALSE
    /\ response.body.executed_details[1].index = 1
    /\ response.body.failed_details[1].index = 2

\* the first streamed point was sent as the k-th call and raised
FirstPointFailedAt(cs, k) == IsCmd(cs, k, "slvMove") /\ cs[k].idx = 1 /\ ~cs[k].ok

\* after the k-th call, leaving slave mode and GiveArm were both called
CleanedUpAfter(cs, k) ==
    /\ \E i \in (k + 1)..Len(cs) : IsCmd(cs, i, "slvChangeMode") /\ cs[i].arg = SlaveModeOff
    /\ \E j \in (k + 1)..Len(cs) : IsCmd(cs, j, "GiveArm")

\* C18: in slave mode, if the first streamed point fails, no further point is
\* attempted, the result has success false, and the exit-slave-mode and the
\* release-arm commands have both been issued before the call returns.
C18_FirstPointFailure ==
    Slave(response) =>
        \A k \in 1..Len(calls) :
            FirstPointFailedAt(calls, k) =>
                /\ Len(StreamOf(calls)) = 1
                /\ response.body.success = FALSE
                /\ CleanedUpAfter(calls, k)

\* the call that raised out of the slave try block: TakeArm, a mode change, the
\* first point or GiveArm (a later point that fails raises nothing)
RaisedAt(cs, k) ==
    /\ cs[k].fn = "robot_execute"
    /\ ~cs[k].ok
    /\ cs[k].cmd = "slvMove" => cs[k].idx = 1
    /\ \A j \in 1..(k - 1) :
          ~(cs[j].fn = "robot_execute" /\ ~cs[j].ok /\ (cs[j].cmd = "slvMove" => cs[j].idx = 1))

\* C19: on every exception path of the slave trajectory both the
\* exit-slave-mode and the release-arm command are attempted before the call
\* returns.
C19_CleanupRunsInFull ==
    Slave(response) =>
        \A k \in 1..Len(calls) : RaisedAt(calls, k) => CleanedUpAfter(calls, k)

\* C20: in slave mode, after the first point has succeeded, every remaining
\* point is streamed exactly once, in trajectory order, whichever of them fail;
\* a failed point is counted and listed as failed.
C20_StreamGoesOn ==
    (Slave(response) /\ StreamOf(calls) # << >> /\ StreamOf(calls)[1].ok) =>
        LET stream == StreamOf(calls)
            b == response.body
        IN  /\ Len(stream) = Len(response.args.trajectory)
            /\ \A i \in 1..Len(stream) :
                  /\ stream[i].idx = i
                  /\ stream[i].arg = response.args.trajectory[i] \o << 0, 0 >>
            /\ b.failed_points = Cardinality({ i \in 1..Len(stream) : ~stream[i].ok })
            /\ "failed_details" \in DOMAIN b =>
                  \A i \in 1..Len(stream) :
                      ~stream[i].ok =>
                          /\ b.failed_points > 0
                          /\ Cardinality(WithIndex(b.failed_details, i)) = 1

\* three points: the second failed, the third was still streamed and the call
\* ended normally with the second point in the failed list
C20_Witness ==
    /\ Slave(response)
    /\ Len(StreamOf(calls)) = 3
    /\ StreamOf(calls)[1].ok
    /\ ~StreamOf(calls)[2].ok
    /\ StreamOf(calls)[3].ok
    /\ "failed_details" \in DOMAIN response.body
    /\ response.body.failed_points = 1
    /\ response.body.failed_details[1].index = 2

-----------------------------------------------------------------------------
\* Pick-and-place (SpecPick).

Pick(r) == r.tool = "bcap_robot_pick_and_place"

\* the calls of cs that belong to step n (11: the final read)
OfStep(cs, n) == SelectSeq(cs, LAMBDA c : c.idx = n)

\* the initial read (step 0) raised / returned
CaptureFailed(cs) == Failed(OfStep(cs, 0))
Captured(cs) == Len(OfStep(cs, 0)) = 3 /\ ~Failed(OfStep(cs, 0))

\* the records of failed steps among steps
FailedSteps(steps) == SelectSeq(steps, LAMBDA s : s.status = "failed")

\* C21: in pick-and-place, if the initial-pose capture (step 0) fails, no
\* gripper command, no arm acquisition and no move is issued, the result has
\* success false and an empty step sequence, and the operation is logged.
C21_CaptureIsFatal ==
    (Pick(response) /\ CaptureFailed(calls)) =>
        /\ \A i \in 1..Len(calls) :
              calls[i].fn \notin {"controller_execute", "robot_execute", "robot_move"}
        /\ response.body.success = FALSE
        /\ response.body.steps = << >>
        /\ Len(operation_log) = log_start + 1
        /\ operation_log[Len(operation_log)] =
              [ operation |-> "bcap_robot_pick_and_place", params |-> response.args,
                result |-> Str(response.body), error |-> NoneRec ]

\* variable_getvalue of the initial read raised
C21_Witness ==
    /\ Pick(response)
    /\ Len(calls) = 2
    /\ calls[2].fn = "variable_getvalue"
    /\ ~calls[2].ok
    /\ response.body.success = FALSE

\* C22: in pick-and-place, whenever step 0 succeeds, every step 1..10 is
\* attempted, in order, whichever protocol call of whichever earlier step
\* failed, and the returned step sequence holds exactly one record for each
\* step 0..10 in increasing step order.
C22_EveryStepAttempted ==
    (Pick(response) /\ Captured(calls)) =>
        /\ \A n \in 1..10 : Len(OfStep(calls, n)) > 0
        /\ \A i \in 1..Len(calls) : \A j \in i..Len(calls) : calls[i].idx <= calls[j].idx
        /\ Len(response.body.steps) = 11
        /\ \A n \in 0..10 : response.body.steps[n + 1].step = n

\* C23: in pick-and-place, whenever step 0 succeeds, step 10 (TakeArm, then a
\* move to exactly the captured initial pose) is attempted even if steps 1..9
\* failed, and the final pose is read after step 10.
C23_ReturnsAndReadsFinalPose ==
    (Pick(response) /\ Captured(calls)) =>
        \E i \in 1..Len(calls) :
            /\ calls[i].idx = 10
            /\ calls[i].cmd = "TakeArm"
            /\ calls[i].ok =>
                  /\ i < Len(calls)
                  /\ calls[i + 1].fn = "robot_move"
                  /\ calls[i + 1].idx = 10
                  /\ calls[i + 1].arg = response.body.steps[1].position
            /\ \E j \in (i + 1)..Len(calls) :
                  calls[j].idx = 11 /\ calls[j].fn = "robot_getvariable"

\* C24: for every pick-and-place run in which step 0 succeeded, success is true
\* if and only if no step failed (the error list is empty).
C24_SuccessIffNoErrors ==
    (Pick(response) /\ Captured(calls)) =>
        (response.body.success <=> Len(FailedSteps(response.body.steps)) = 0)

\* every program point of pick-and-place was reached and its call returned
AllStepsSucceeded(cs) == Len(cs) = 23 /\ ~Failed(cs)

\* the distance the request gives (or leaves to its default), in mm (3000ths)
InMm(args, key, default) == 10 * Get(args, key, default)

\* the distances of a run are the centimetres of the request times 10: step 2
\* moves to initial_z - 10 * pick_down_distance (initial_z - 40 mm, 120000
\* 3000ths, for 4.0) with x, y, rx, ry, rz as captured, the three lift steps
\* cover a third of the lift each, step 7 moves by the offset
Converted(r, cs) ==
    LET b == r.body
        p == b.initial_position
        a == r.args
        down == OfStep(cs, 2)[2].arg
    IN  /\ down = << p[1], p[2], p[3] - InMm(a, "pick_down_distance", DefaultPickDown),
                     p[4], p[5], p[6] >>
        /\ a = EmptyDict => down[3] = p[3] - 120000
        /\ b.steps[3].distance_mm = InMm(a, "pick_down_distance", DefaultPickDown)
        /\ b.steps[5].distance_mm * 3 = InMm(a, "lift_up_distance", DefaultLiftUp)
        /\ b.steps[8].distance_mm = InMm(a, "place_y_offset", DefaultPlaceY)
        /\ b.steps[9].distance_mm = InMm(a, "place_down_distance", DefaultPlaceDown)
        /\ OfStep(cs, 7)[2].arg[2] = p[2] + InMm(a, "place_y_offset", DefaultPlaceY)
        /\ b.success

\* what variable_getvalue answered in the initial read (step 0) and in the
\* final read (idx 11)
AnswerOf(cs, idx) == OfStep(cs, idx)[2].ret

\* C25 as stated: in pick-and-place with all steps succeeding, the distances
\* given in centimetres are used times 10: step 2 moves to initial_z - 10 *
\* pick_down_distance (initial_z - 40 mm for 4.0) with x, y, rx, ry, rz as
\* captured, and the final position returned equals the captured initial
\* position.
C25_CentimetresToMillimetres ==
    (Pick(response) /\ AllStepsSucceeded(calls)) =>
        /\ Converted(response, calls)
        /\ response.body.final_position = response.body.initial_position

\* C25, amended: in pick-and-place with all steps succeeding, the distances
\* given in centimetres are used times 10 (step 2 moves to initial_z - 10 *
\* pick_down_distance with x, y, rx, ry, rz as captured), the initial position
\* returned is the first six components of the pose read at the start and the
\* final position returned is the first six components of the pose the client
\* reports in the final read: it equals the captured initial position exactly
\* when the client reports those six components again.
C25_ConvertedFinalAsRead ==
    (Pick(response) /\ AllStepsSucceeded(calls)) =>
        /\ Converted(response, calls)
        /\ response.body.initial_position = Take6(AnswerOf(calls, 0))
        /\ response.body.final_position = Take6(AnswerOf(calls, 11))
        /\ (response.body.final_position = response.body.initial_position
              <=> Take6(AnswerOf(calls, 11)) = Take6(AnswerOf(calls, 0)))

\* the defaults on a robot that stands at z = 200 mm: step 2 moved to z = 160
\* mm, every step succeeded, and in the final read the client reported the
\* robot at z = 200.5 mm, which is the final position returned
C25_Witness ==
    /\ Pick(response)
    /\ AllStepsSucceeded(calls)
    /\ response.args = EmptyDict
    /\ response.body.initial_position[3] = 600000
    /\ OfStep(calls, 2)[2].arg[3] = 480000
    /\ AnswerOf(calls, 11)[3] = 601500
    /\ response.body.final_position[3] = 601500

-----------------------------------------------------------------------------
\* The command primitives (SpecPrim).

Gripper(r) == r.tool \in {"bcap_robot_open_gripper", "bcap_robot_close_gripper"}

\* the distance a gripper request asks for
DistOf(r) ==
    Get(r.args, "dist",
        IF r.tool = "bcap_robot_open_gripper" THEN DefaultOpenDist ELSE DefaultCloseDist)

\* C26: gripper open and close accept a distance exactly when it lies in
\* [0, 0.03] m; a rejected distance yields the validation error, no protocol
\* call and no change of the session state.
C26_GripperRange ==
    [][ (Gripper(response') /\ Truthy(controller_handle)) =>
          LET d == DistOf(response')
          IN  /\ (0 <= d /\ d <= 30) <=> calls' # << >>
              /\ calls' # << >> =>
                    /\ Len(calls') = 1
                    /\ calls'[1].cmd = "HandMoveA"
                    /\ calls'[1].arg[1] = d * 1000
              /\ ~(0 <= d /\ d <= 30) =>
                    /\ response'.body.success = FALSE
                    /\ response'.body.error = Text("Error: ", BadDist)
                    /\ UNCHANGED << client, controller_handle, robot_handle, connection_info >> ]_vars

\* the gripper was asked to open to exactly 0.03 m and HandMoveA went out with
\* 30 mm
C26_Witness ==
    /\ response.tool = "bcap_robot_open_gripper"
    /\ response.args = [dist |-> 30]
    /\ Len(calls) = 1
    /\ calls[1].arg[1] = 30000
    /\ response.body.success

\* the command primitives and the connection stage each of them needs
Primitive(r) ==
    r.tool \in { "bcap_controller_connect", "bcap_robot_get_variable",
                 "bcap_robot_move_to_joint_angles", "bcap_robot_move_to_pose",
                 "bcap_robot_gohome", "bcap_robot_set_speed",
                 "bcap_robot_open_gripper", "bcap_robot_close_gripper" }

\* The stage the claim requires of r is missing (none of the primitives changes
\* the stage it needs when it is missing): the client for controller-connect,
\* the controller for the gripper, the robot for the rest, present when truthy
\* as the guards of the handlers test it.  For the joint move the stage is the
\* one its tool description names (line 310); its handler has no guard.
StageMissing(r) ==
    CASE r.tool = "bcap_controller_connect" -> ~Truthy(client)
      [] Gripper(r) -> ~Truthy(controller_handle)
      [] OTHER -> ~Truthy(robot_handle)

\* the error the guard of that stage raises
PreconditionError(r) ==
    CASE r.tool = "bcap_controller_connect" -> NeedConnect
      [] Gripper(r) -> NeedController
      [] OTHER -> NeedRobot

\* C27: every command primitive checks its connection stage before it calls
\* the protocol client: when the stage is missing it fails with the
\* precondition error and no protocol call has been made.
C27_StageCheckedFirst ==
    (Primitive(response) /\ StageMissing(response)) =>
        /\ calls = << >>
        /\ response.body.success = FALSE
        /\ response.body.error = Text("Error: ", PreconditionError(response))

SingleMove(r) == r.tool \in {"bcap_robot_move_to_joint_angles", "bcap_robot_move_to_pose"}

\* the i-th call of cs is TakeArm
TakeAt(cs, i) == cs[i].fn = "robot_execute" /\ cs[i].cmd = "TakeArm"

\* no move was issued and the caller was told of the failure
MoveRefused(cs, r) ==
    /\ \A j \in 1..Len(cs) : cs[j].fn # "robot_move"
    /\ r.body.success = FALSE

\* C29 as stated: in the single joint move and the single pose move TakeArm is
\* the protocol call right before the move, and when TakeArm fails no move is
\* issued and the failure is returned.
C29_AcquiredRightBeforeMove ==
    SingleMove(response) =>
        /\ \A j \in 1..Len(calls) :
              calls[j].fn = "robot_move" => (j > 1 /\ TakeAt(calls, j - 1) /\ calls[j - 1].ok)
        /\ \A i \in 1..Len(calls) :
              (TakeAt(calls, i) /\ ~calls[i].ok) => MoveRefused(calls, response)

\* the request is a joint move whose option carries a speed
SetsSpeed(r) ==
    r.tool = "bcap_robot_move_to_joint_angles" /\ ParseSpeed(Get(r.args, "option", "")) # NoneRec

\* C29, amended: in the single joint move and the single pose move TakeArm
\* succeeds before the move and nothing is called between the two but the
\* robot_speed of a joint move whose option carries a speed; when TakeArm fails
\* no move is issued and the failure is returned.
C29_AcquiredBeforeMove ==
    SingleMove(response) =>
        /\ \A j \in 1..Len(calls) :
              calls[j].fn = "robot_move" =>
                  \E i \in 1..(j - 1) :
                      /\ TakeAt(calls, i)
                      /\ calls[i].ok
                      /\ i + 1 < j => (i + 2 = j /\ calls[i + 1].fn = "robot_speed" /\ SetsSpeed(response))
                      /\ SetsSpeed(response) => i + 2 = j
        /\ \A i \in 1..Len(calls) :
              (TakeAt(calls, i) /\ ~calls[i].ok) => MoveRefused(calls, response)

\* a joint move with Speed=50: TakeArm, robot_speed, robot_move
C29_Witness ==
    /\ SetsSpeed(response)
    /\ \E i \in 1..(Len(calls) - 2) :
          /\ TakeAt(calls, i)
          /\ calls[i + 1].fn = "robot_speed"
          /\ calls[i + 2].fn = "robot_move"
    /\ response.body.success

-----------------------------------------------------------------------------
\* Retries.

\* c and d are the same command: the same protocol function with the same
\* arguments, issued for the same point or step
SameCommand(c, d) ==
    /\ c.fn = d.fn
    /\ c.cmd = d.cmd
    /\ c.h = d.h
    /\ DOMAIN c = DOMAIN d
    /\ "arg" \in DOMAIN c => (c.idx = d.idx /\ c.arg = d.arg)

\* the pairs i < j of calls where the i-th failed and the j-th is the same
\* command again
Reissued(cs) ==
    { p \in (1..Len(cs)) \X (1..Len(cs)) :
        p[1] < p[2] /\ ~cs[p[1]].ok /\ SameCommand(cs[p[1]], cs[p[2]]) }

\* C28 as stated: within one top-level operation a protocol-client command that
\* has failed is never issued again.
C28_NoRetry ==
    IsToolCall(response) => Reissued(calls) = {}

\* C28, amended: within one top-level operation a protocol-client command that
\* has failed is never issued again, except in the slave trajectory: when
\* leaving slave mode or GiveArm raised out of its try block, the cleanup of
\* the exception path issues that command once more.
C28_NoRetryButCleanup ==
    IsToolCall(response) =>
        \A p \in Reissued(calls) :
            /\ Slave(response)
            /\ RaisedAt(calls, p[1])
            /\ calls[p[1]].cmd \in {"slvChangeMode", "GiveArm"}
            /\ calls[p[1]].cmd = "slvChangeMode" => calls[p[1]].arg = SlaveModeOff
            /\ \A q \in Reissued(calls) : q = p

\* leaving slave mode raised at the end of the stream and was issued again by
\* the cleanup
C28_Witness ==
    /\ Slave(response)
    /\ \E p \in Reissued(calls) :
          /\ calls[p[1]].cmd = "slvChangeMode"
          /\ calls[p[2]].ok
    /\ response.body.success = FALSE

-----------------------------------------------------------------------------
\* Concurrent requests (SpecConc).

\* C30: no two top-level operations interleave their protocol calls or
\* session-state updates: from the first call of an operation to its return
\* (where its updates are in place) no call and no return of another operation
\* happens, even when that one was requested in between.
C30_NoInterleaving ==
    \A j \in 2..Len(events) :
        events[j].task # events[j - 1].task => events[j - 1].fn = "return"

\* the pick-and-place was requested while the slave trajectory was in the
\* middle of its calls, and made its own calls after the trajectory returned
C30_Witness ==
    /\ DOMAIN tasks = {1, 2}
    /\ tasks[1].req.name = "bcap_robot_execute_slave_trajectory"
    /\ tasks[2].req.name = "bcap_robot_pick_and_place"
    /\ Len(events) = 34
    /\ tasks[2].arrived = 5
    /\ events[5].task = 1
    /\ events[10] = [task |-> 1, fn |-> "return"]
    /\ events[34] = [task |-> 2, fn |-> "return"]

-----------------------------------------------------------------------------
\* Arm ownership around the moves (SpecTraj, SpecPrim).

\* the positions of cs where the arm command cmd was issued
ArmCalls(cs, cmd) == { k \in 1..Len(cs) : IsCmd(cs, k, cmd) }

\* the positions of cs where a motion command was issued
MoveCalls(cs) == { k \in 1..Len(cs) : cs[k].fn \in {"robot_move", "robot_gohome"} }

\* the discrete trajectory got past its precondition and its validation
DiscreteRan(r) ==
    Discrete(r) /\ Truthy(robot_handle) /\ FirstBadPoint(r.args.trajectory) = 0

\* C31: a discrete trajectory issues one stale GiveArm whose failure is ignored,
\* then exactly one TakeArm for the whole batch before the first move; if the
\* TakeArm fails no move is issued and the operation fails.
C31_OneAcquisitionPerBatch ==
    DiscreteRan(response) =>
        /\ Cardinality(ArmCalls(calls, "GiveArm")) = 1
        /\ Cardinality(ArmCalls(calls, "TakeArm")) = 1
        /\ \A g \in ArmCalls(calls, "GiveArm"), t \in ArmCalls(calls, "TakeArm") :
              /\ t = g + 1
              /\ \A m \in MoveCalls(calls) : t < m
              /\ calls[t].ok => Len(MovesOf(calls)) = Len(response.args.trajectory)
              /\ ~calls[t].ok =>
                    /\ MoveCalls(calls) = {}
                    /\ response.body.success = FALSE
                    /\ "error" \in DOMAIN response.body

\* two points: the stale GiveArm failed, TakeArm was still issued once and both
\* moves followed it
C31_Witness ==
    /\ DiscreteRan(response)
    /\ Len(response.args.trajectory) = 2
    /\ Len(calls) = 7
    /\ IsCmd(calls, 4, "GiveArm") /\ ~calls[4].ok
    /\ IsCmd(calls, 5, "TakeArm") /\ calls[5].ok
    /\ calls[6].fn = "robot_move" /\ calls[7].fn = "robot_move"
    /\ response.body.success

GoHome(r) == r.tool = "bcap_robot_gohome"

\* the position read that go-home starts with returned: its three calls are ok
AnglesRead(cs) == Len(cs) >= 3 /\ \A i \in 1..3 : cs[i].ok

\* C32: go-home issues a stale GiveArm whose failure is ignored, then TakeArm,
\* then the home command, in this order; the home command is issued only if
\* TakeArm succeeded, and a failed GiveArm never prevents TakeArm and the home
\* command.
C32_GoHomeOrder ==
    GoHome(response) =>
        /\ \A m \in MoveCalls(calls) :
              /\ calls[m].fn = "robot_gohome"
              /\ m >= 3
              /\ IsCmd(calls, m - 1, "TakeArm") /\ calls[m - 1].ok
              /\ IsCmd(calls, m - 2, "GiveArm")
        /\ Cardinality(MoveCalls(calls)) <= 1
        /\ AnglesRead(calls) =>
              /\ ArmCalls(calls, "GiveArm") = {4}
              /\ ArmCalls(calls, "TakeArm") = {5}
              /\ calls[5].ok <=> MoveCalls(calls) = {6}
              /\ (calls[5].ok /\ calls[6].ok) <=> response.body.success

\* the stale GiveArm failed; TakeArm and the home command followed and the
\* operation succeeded
C32_Witness ==
    /\ GoHome(response)
    /\ Len(calls) = 6
    /\ IsCmd(calls, 4, "GiveArm") /\ ~calls[4].ok
    /\ IsCmd(calls, 5, "TakeArm") /\ calls[5].ok
    /\ calls[6].fn = "robot_gohome" /\ calls[6].ok
    /\ response.body.success

\* the positions of cs where slave mode was entered / left
ModeCalls(cs, mode) == { k \in ArmCalls(cs, "slvChangeMode") : cs[k].arg = mode }

\* the slave trajectory ran to the end of its try block: the normal result
SlaveCompleted(r) == Slave(r) /\ "mode" \in DOMAIN r.body

\* C33: in slave mode TakeArm comes before the mode change that enters slave
\* mode, that before the streamed points, those before the mode change that
\* leaves slave mode, and that before GiveArm.  No point is streamed unless
\* TakeArm and the entering mode change both succeeded; on normal completion
\* slave mode is left after the last point and before the arm is released.
C33_SlaveOrder ==
    Slave(response) =>
        LET take == ArmCalls(calls, "TakeArm")
            on == ModeCalls(calls, SlaveModeOn)
            points == ArmCalls(calls, "slvMove")
            off == ModeCalls(calls, SlaveModeOff)
            give == ArmCalls(calls, "GiveArm")
        IN  /\ \A t \in take, o \in on : t < o
            /\ \A o \in on, p \in points : o < p
            /\ \A p \in points, x \in off : p < x
            /\ \A t \in take, x \in off : t < x
            /\ \A g \in give : \E x \in off : x < g
            /\ points # {} => /\ \E t \in take : calls[t].ok
                              /\ \E o \in on : calls[o].ok
            /\ SlaveCompleted(response) =>
                  /\ Cardinality(take) = 1 /\ Cardinality(on) = 1
                  /\ Cardinality(off) = 1 /\ Cardinality(give) = 1
                  /\ Cardinality(points) = Len(response.args.trajectory)
                  /\ \A x \in off, g \in give : x + 1 = g /\ g = Len(calls)

\* two points were streamed and the call completed: TakeArm, enter, two
\* points, leave, GiveArm after the three calls of the position read
C33_Witness ==
    /\ SlaveCompleted(response)
    /\ Len(calls) = 9
    /\ IsCmd(calls, 4, "TakeArm") /\ calls[4].ok
    /\ IsCmd(calls, 5, "slvChangeMode") /\ calls[5].arg = SlaveModeOn
    /\ IsCmd(calls, 6, "slvMove") /\ IsCmd(calls, 7, "slvMove")
    /\ IsCmd(calls, 8, "slvChangeMode") /\ calls[8].arg = SlaveModeOff
    /\ IsCmd(calls, 9, "GiveArm")
    /\ response.body.success

-----------------------------------------------------------------------------
\* C34: for every slave trajectory whose first point is accepted, the success
\* flag of the result is true if and only if no point failed, as in discrete
\* mode; a run in which every point was streamed successfully reports success.
C34_SlaveSuccessIffNoFailedPoint ==
    (Slave(response) /\ StreamOf(calls) # << >> /\ StreamOf(calls)[1].ok) =>
        /\ response.body.success = (response.body.failed_points = 0)
        /\ (\A i \in 1..Len(StreamOf(calls)) : StreamOf(calls)[i].ok) => response.body.success

-----------------------------------------------------------------------------
\* Pick-and-place: the steps against each other (SpecPick).

\* the records of step n among steps
RecordsOf(steps, n) == SelectSeq(steps, LAMBDA s : s.step = n)

\* C35: the steps 1..10 of pick-and-place are independent: a step is recorded
\* as failed only if one of its own protocol calls failed, and no step is
\* skipped or failed because an earlier step failed.
C35_StepsIndependent ==
    (Pick(response) /\ Captured(calls)) =>
        \A n \in 1..10 :
            /\ Len(RecordsOf(response.body.steps, n)) = 1
            /\ RecordsOf(response.body.steps, n)[1].status = "failed" => Failed(OfStep(calls, n))

\* the TakeArm and the robot_move of step n, when they were issued
TakeOf(cs, n) == SelectSeq(OfStep(cs, n), LAMBDA c : c.cmd = "TakeArm")
MoveOf(cs, n) == SelectSeq(OfStep(cs, n), LAMBDA c : c.fn = "robot_move")

\* the run reached step 7: its TakeArm was issued
ReachedStep7(cs) == Len(TakeOf(cs, 7)) = 1

\* lift_up_mm of the request
LiftUpMm(args) == InMm(args, "lift_up_distance", DefaultLiftUp)

\* pick_z of the request on the captured pose p
PickZ(args, p) == p[3] - InMm(args, "pick_down_distance", DefaultPickDown)

\* C36: in every pick-and-place run that reaches step 7 the three lift
\* sub-steps sum to the full lift distance: the moves of steps 4, 5, 6 target
\* pick_z + k * (lift_up_mm / 3) for k = 1, 2, 3 and step 7 (and with it the
\* base of step 8) targets initial_z - pick_down_mm + lift_up_mm, whether or
\* not lift sub-steps failed.
C36_LiftSumsToFullDistance ==
    (Pick(response) /\ ReachedStep7(calls)) =>
        LET a == response.args
            p == response.body.steps[1].position
        IN  /\ \A k \in 1..3 : \A i \in 1..Len(MoveOf(calls, 3 + k)) :
                  3 * MoveOf(calls, 3 + k)[i].arg[3] = 3 * PickZ(a, p) + k * LiftUpMm(a)
            /\ \A i \in 1..Len(MoveOf(calls, 7)) :
                  MoveOf(calls, 7)[i].arg[3] = PickZ(a, p) + LiftUpMm(a)
            /\ \A i \in 1..Len(MoveOf(calls, 8)) :
                  MoveOf(calls, 8)[i].arg[3] =
                      PickZ(a, p) + LiftUpMm(a) - InMm(a, "place_down_distance", DefaultPlaceDown)

-----------------------------------------------------------------------------
\* The log entry of an operation against what the operation returned.

\* the step from the unprimed to the primed state served a tool call that wrote
\* one log entry
Logged == response' # NoResponse /\ IsToolCall(response')
          /\ Len(operation_log') = Len(operation_log) + 1

\* C37: every log entry written for an operation that returned success false
\* carries an error text (not None), and every entry written for an operation
\* that returned success true carries a result and no error (None); for the
\* primitives as for the failure paths of the slave trajectory and of
\* pick-and-place.
C37_LogEntryMatchesOutcome ==
    [][ Logged =>
          LET entry == operation_log'[Len(operation_log')]
              b == response'.body
          IN  /\ entry.operation = response'.tool
              /\ "success" \in DOMAIN b
              /\ ~b.success => entry.error # NoneRec
              /\ b.success => (entry.result # NoneRec /\ entry.error = NoneRec) ]_vars

-----------------------------------------------------------------------------
\* Status against the precondition checks and reset (Spec).

\* what Status reports in the current state
StatusNow == handle_get_connection_status(state, EmptyDict, {}, NoExc, None).body

\* C38: in every reachable state, for every handle the protocol client may
\* return (the integer 0 included), Status and the precondition checks agree:
\* when Status reports controller_connected (robot_connected), a
\* controller-level (robot-level) operation is not rejected with the "call
\* connect first" error, and reset releases every handle Status reports as
\* connected.
C38_StatusAgreesWithChecks ==
    LET rc == handle_robot_connect(state, EmptyDict, {}, NoExc, 1)
        gv == handle_robot_get_variable(state, [name |-> "@CURRENT_ANGLE"], {}, NoExc, 1)
        r == reset(state, 0, {}, NoExc)
    IN  /\ StatusNow.controller_connected => rc.exc # NeedController
        /\ StatusNow.robot_connected => gv.exc # NeedRobot
        /\ StatusNow.robot_connected =>
              Issued(r.calls, "robot_release", robot_handle, Len(r.calls))
        /\ StatusNow.controller_connected =>
              Issued(r.calls, "controller_disconnect", controller_handle, Len(r.calls))

-----------------------------------------------------------------------------
\* The robot handle against the controller it was obtained from (Spec).

\* the step from the unprimed to the primed state served the tool and it
\* returned success
Succeeded(tool) ==
    /\ response = NoResponse
    /\ response'.tool = tool
    /\ response'.body.success

\* C39: a robot handle held by the session was obtained from the controller
\* handle the session holds: robot-connect obtains it from the stored
\* controller handle, and a successful controller-connect on a session that
\* holds a controller and a robot handle neither leaves the robot handle of
\* the previous controller in place nor drops the previous controller handle
\* without disconnecting it.
C39_RobotOfStoredController ==
    [][ /\ Succeeded("bcap_robot_connect") =>
              /\ calls'[1].fn = "controller_getrobot"
              /\ calls'[1].h = controller_handle'
        /\ (Succeeded("bcap_controller_connect") /\ robot_handle # None) =>
              robot_handle' = None
        /\ (Succeeded("bcap_controller_connect") /\ controller_handle # None) =>
              Issued(calls', "controller_disconnect", controller_handle, Len(calls')) ]_vars

-----------------------------------------------------------------------------
\* What the operations leave alone (SpecFrame).

\* the operations that may write the session: connect, disconnect,
\* ServerState.reset, controller-connect, robot-connect
Mutators == { "bcap_connect", "bcap_disconnect", "reset",
              "bcap_controller_connect", "bcap_robot_connect" }

\* client, both handles and the metadata
Session == << client, controller_handle, robot_handle, connection_info >>

\* C40: the session is written only by connect, disconnect/reset,
\* controller-connect and robot-connect: a controller-connect or robot-connect
\* that fails leaves client, both handles and the metadata unchanged, and no
\* read, speed, single-move, go-home, trajectory, gripper or pick-and-place
\* operation changes any of them, whatever its outcome.
C40_SessionFrame ==
    [][ (response = NoResponse /\ response' # NoResponse) =>
          /\ response'.tool \notin Mutators => UNCHANGED Session
          /\ (response'.tool \in {"bcap_controller_connect", "bcap_robot_connect"}
                /\ ~response'.body.success) => UNCHANGED Session ]_vars

\* a joint move went through its own connection (whose handles are 1) to the
\* end on a session that holds a controller handle 0 and no robot handle, and
\* left them as they were
C40_Witness ==
    /\ response.tool = "bcap_robot_move_to_joint_angles"
    /\ response.body.success
    /\ Len(calls) = 10
    /\ calls[2].fn = "controller_connect" /\ calls[2].h = 1
    /\ client # None
    /\ controller_handle = 0
    /\ robot_handle = None

====
